---- MODULE Spec2Model ----
(***************************************************************************)
(* NetInfo: acquisition / parsing / classification core.                   *)
(*                                                                         *)
(* Strings that the code inspects (strings.Fields, strings.Contains,       *)
(* comparison with a literal) are sequences of tokens; an error value is   *)
(* a record [typed, Type, msg] (typed: it is a *utils.NetworkError; msg:   *)
(* the tokens of err.Error()); a nil pointer is the empty sequence and a   *)
(* non-nil pointer the one-element sequence holding the record pointed at. *)
(***************************************************************************)
EXTENDS Integers, Sequences, FiniteSets, TLC

VARIABLES
    platform,        \* runtime.GOOS
    \* ---- gateway adapter (network/gateway.go)
    gwPc,            \* position inside the running gateway query
    gwOp,            \* the public function that was called
    gwIPVersion,     \* argument of GetDefaultGateway
    gatewayConfig,   \* the *GatewayConfig under construction / returned
    gwErr,           \* the err variable of the running function
    gwResult,        \* what the public function returned: [info, err]
    tiersTried,      \* history: <<[tier, yield]>> of getLinuxGateway
    \* ---- process runner (utils.CommandWithTimeout)
    cmdPc,           \* "idle", "waiting" (inside cmd.Output), "returned"
    cmdDeadline,     \* time left until ctx.Done() when the call was made
    cmdClock,        \* time elapsed since the call
    ctxDone,         \* the context's deadline has elapsed
    child,           \* [state, runFor, exitCode, cause] of the child process
    cmdErr,          \* the error the call returned
    spawned,         \* history: processes created by the call
    startCalls,      \* history: calls of cmd.Start made by the call
    \* ---- DNS adapter (network/dns.go)
    dnsPc,           \* position inside the running DNS query
    dnsOp,           \* the public function that was called
    dnsArg,          \* interfaceName of GetDNSServersByInterface
    dnsConfig,       \* the *DNSConfig returned by the strategy (<<>> is nil)
    dnsErr,          \* the err variable of the running function
    dnsResult,       \* what the public function returned: [info, err]
    dnsInput,        \* history: what the strategy run last has read
    strategiesRun,   \* history: the strategies executed by the call, in order
    \* ---- route-type classification of the route parsers
    rtPc,            \* "input", "classified"
    rtDest,          \* the destination string of the route being parsed
    rtParser,        \* the parser that classified it
    rtType,          \* RouteInfo.Type
    \* ---- connection status normalization (mapGopsutilStatus)
    stPc,            \* "input", "once", "twice"
    stIn,            \* the status string given
    stOut,           \* mapGopsutilStatus(stIn)
    stOut2,          \* mapGopsutilStatus(stOut)
    \* ---- connection collection (getActiveConnections)
    connPc,          \* "idle", "procs", "loop", "done"
    connSockets,     \* what psnet.ConnectionsWithContext returned: [kind, val]
    connProcs,       \* what psproc.ProcessesWithContext returned: [kind, val]
    processMap,      \* the PID -> name table
    connectionConfig,\* the *ConnectionConfig returned (<<>> is nil)
    connErr,         \* the error returned
    connShown,       \* the table rows of ShowListeningPorts: <<[port, conn]>>
    connPort,        \* argument of GetConnectionsByPort
    connByPort,      \* what GetConnectionsByPort returned: [conns, err]
    \* ---- ping output parsing (parseWindowsPingOutput / parseLinuxPingOutput)
    ppPc,            \* "idle", "input", "parsed"
    ppOutput,        \* the output given to the parser: its lines
    ppGiven,         \* the numbers the output was written with
    ppMatcher,       \* the parser that was applied
    ppStats,         \* the numeric fields of the PingResult after parsing
    \* ---- PingHost / PingMultipleHosts
    pingPc,          \* "idle", "loop", "start", "output", "sleep", "done"
    pingOp,          \* the public function that was called
    pingHosts,       \* argument of PingMultipleHosts
    pingIndex,       \* 1 + the loop variable i of PingMultipleHosts
    pingConfig,      \* the *PingConfig of the running PingHost
    pingReturn,      \* what PingHost returned last: [result, err]
    pingResults,     \* the results slice of PingMultipleHosts
    pingEvents,      \* history: the pings started and ended, in order
    pingOverlap,     \* history: a ping was started while a ping child was running
    pingStep,        \* the step of TestConnectivity that runs
    pingReport,      \* what TestConnectivity printed for the step: "OK" or "failed"
    \* ---- GetPublicIP
    ipPc,            \* "idle", "loop", "done"
    ipImpl,          \* which of the two versions of GetPublicIP runs
    ipIndex,         \* 1 + the index of the endpoint the loop is at
    ipElapsed,       \* time since ctx was created
    ipLastErr,       \* lastErr
    ipAttempts,      \* history: the requests made, in order: [endpoint, resp]
    ipReturn,        \* what GetPublicIP returned: [ip, err]
    \* ---- retry policy (ShouldRetry / GetRetryDelay)
    ryPc,            \* "idle", or the function that has returned
    ryErr,           \* argument of ShouldRetry
    ryShould,        \* what ShouldRetry returned
    ryAttempt,       \* argument of GetRetryDelay (int64)
    ryDelay,         \* what GetRetryDelay returned (int64 nanoseconds)
    ryKinds,         \* what IsTimeoutError, IsPermissionError and IsNetworkError returned
    ryMessage,       \* what GetUserFriendlyMessage returned
    \* ---- routing table adapter (getWindowsRoutes / getLinuxRoutes / GetDefaultRoutes)
    routesPc,        \* position inside the running GetDefaultRoutes
    routeConfig,     \* the *RouteConfig of the acquisition: [Routes]
    routesErr,       \* the err variable of the running function
    routesTried,     \* history: <<[tier, routes]>> of getLinuxRoutes
    routesReturn     \* what GetDefaultRoutes returned: [routes, err]

vars ==
    <<platform,
      gwPc, gwOp, gwIPVersion, gatewayConfig, gwErr, gwResult, tiersTried,
      cmdPc, cmdDeadline, cmdClock, ctxDone, child, cmdErr, spawned, startCalls,
      dnsPc, dnsOp, dnsArg, dnsConfig, dnsErr, dnsResult, dnsInput, strategiesRun,
      rtPc, rtDest, rtParser, rtType,
      stPc, stIn, stOut, stOut2,
      connPc, connSockets, connProcs, processMap, connectionConfig, connErr,
      connShown, connPort, connByPort,
      ppPc, ppOutput, ppGiven, ppMatcher, ppStats,
      pingPc, pingOp, pingHosts, pingIndex, pingConfig, pingReturn, pingResults, pingEvents, pingOverlap,
      pingStep, pingReport,
      ipPc, ipImpl, ipIndex, ipElapsed, ipLastErr, ipAttempts, ipReturn,
      ryPc, ryErr, ryShould, ryAttempt, ryDelay, ryKinds, ryMessage,
      routesPc, routeConfig, routesErr, routesTried, routesReturn>>

\* what the actions of the components named in own leave alone: the state of the other
\* components (gw: gateway, cmd: process runner, dns, rt: route type, st: status, conn: connections,
\* pp: ping parsers, ping, ip: public IP, ry: retry policy, routes: routing table)
OthersUnchanged(own) ==
    /\ IF "gw" \in own THEN TRUE
       ELSE UNCHANGED <<gwPc, gwOp, gwIPVersion, gatewayConfig, gwErr, gwResult, tiersTried>>
    /\ IF "cmd" \in own THEN TRUE
       ELSE UNCHANGED <<cmdPc, cmdDeadline, cmdClock, ctxDone, child, cmdErr, spawned, startCalls>>
    /\ IF "dns" \in own THEN TRUE
       ELSE UNCHANGED <<dnsPc, dnsOp, dnsArg, dnsConfig, dnsErr, dnsResult, dnsInput, strategiesRun>>
    /\ IF "rt" \in own THEN TRUE
       ELSE UNCHANGED <<rtPc, rtDest, rtParser, rtType>>
    /\ IF "st" \in own THEN TRUE
       ELSE UNCHANGED <<stPc, stIn, stOut, stOut2>>
    /\ IF "conn" \in own THEN TRUE
       ELSE UNCHANGED <<connPc, connSockets, connProcs, processMap, connectionConfig, connErr,
                        connShown, connPort, connByPort>>
    /\ IF "pp" \in own THEN TRUE
       ELSE UNCHANGED <<ppPc, ppOutput, ppGiven, ppMatcher, ppStats>>
    /\ IF "ping" \in own THEN TRUE
       ELSE UNCHANGED <<pingPc, pingOp, pingHosts, pingIndex, pingConfig, pingReturn, pingResults, pingEvents, pingOverlap,
                        pingStep, pingReport>>
    /\ IF "ip" \in own THEN TRUE
       ELSE UNCHANGED <<ipPc, ipImpl, ipIndex, ipElapsed, ipLastErr, ipAttempts, ipReturn>>
    /\ IF "ry" \in own THEN TRUE
       ELSE UNCHANGED <<ryPc, ryErr, ryShould, ryAttempt, ryDelay, ryKinds, ryMessage>>
    /\ IF "routes" \in own THEN TRUE
       ELSE UNCHANGED <<routesPc, routeConfig, routesErr, routesTried, routesReturn>>

(***************************************************************************)
(* Bounds                                                                  *)
(***************************************************************************)
\* most records (JSON array elements, text lines) in one command output
MaxRecs == 2

\* most lines of /etc/resolv.conf
MaxLines == 3

\* most tokens of a route destination string
MaxDestLen == 3

\* longest timeout and longest run time of a child process, in time units
MaxTime == 3

\* most tokens in the message of an error given to the classifiers
MaxWords == 2

(***************************************************************************)
(* Generic helpers                                                         *)
(***************************************************************************)
NoErr == [typed |-> FALSE, Type |-> "nil", msg |-> <<>>]

\* an error that is not a *utils.NetworkError (errors.New, fmt.Errorf, os/exec, ...)
Untyped(msg) == [typed |-> FALSE, Type |-> "", msg |-> msg]

\* strings.Contains(s, sub) on token sequences
Contains(s, sub) ==
    \E i \in 1..(Len(s) - Len(sub) + 1) : SubSeq(s, i, i + Len(sub) - 1) = sub

Platforms == {"windows", "linux", "darwin"}

IsWindows == platform = "windows"

IsLinux == platform = "linux"

SeqsUpTo(S, n) == UNION {[1..k -> S] : k \in 0..n}

\* net.ParseIP over the address vocabulary of the model
ParseIP(s) ==
    IF s \in {"192.168.1.1", "10.0.0.1", "8.8.8.8", "1.1.1.1", "203.0.113.7"} THEN "ip4"
    ELSE IF s \in {"::ffff:10.0.0.1"} THEN "ip4in6"
    ELSE IF s \in {"fe80::1", "2001:db8::1"} THEN "ip16"
    ELSE "nil"

\* net.IP.To4: non-nil for a 4-byte address and for an IPv4-mapped one
To4(ip) == IF ip \in {"ip4", "ip4in6"} THEN "ip4" ELSE "nil"

(***************************************************************************)
(* Command outputs: what utils.CommandWithTimeout hands to a parser.       *)
(*   kind "fail"    : err # nil                                            *)
(*   kind "invalid" : bytes that are no JSON value (empty output included) *)
(*   kind "null"    : the JSON value null                                  *)
(*   kind "object"  : one JSON object, val = <<object>>                    *)
(*   kind "array"   : a JSON array of objects, val = the objects           *)
(*   kind "text"    : line-oriented output, val = the lines                *)
(***************************************************************************)
CmdFail == [kind |-> "fail", val |-> <<>>]

JSONOutputs(Entries) ==
    {CmdFail, [kind |-> "invalid", val |-> <<>>], [kind |-> "null", val |-> <<>>]}
    \cup {[kind |-> "object", val |-> <<e>>] : e \in Entries}
    \cup {[kind |-> "array", val |-> s] : s \in SeqsUpTo(Entries, MaxRecs)}

\* json.Unmarshal(output, &[]map[string]interface{}): err == nil
UnmarshalArrayOk(out) == out.kind \in {"array", "null"}

(***************************************************************************)
(* Process runner: utils.CommandWithTimeout = context.WithTimeout +        *)
(* exec.CommandContext + cmd.Output                                        *)
(***************************************************************************)
NoChild == [state |-> "none", runFor |-> 0, exitCode |-> 0, cause |-> "none"]

(***************************************************************************)
(* Gateway adapter                                                         *)
(***************************************************************************)
EmptyGatewayConfig == [DefaultIPv4 |-> <<>>, DefaultIPv6 |-> <<>>, AllGateways |-> <<>>]

GatewayInfo(iface, gw, ver, metric, src) ==
    [Interface |-> iface, Gateway |-> gw, IPVersion |-> ver, Metric |-> metric, Source |-> src]

\* "if gatewayConfig.DefaultIPvX == nil { gatewayConfig.DefaultIPvX = &gatewayInfo }"
SetDefaultLastWins(cur, info) == <<info>>

SetDefault(cur, info) == IF cur = <<>> THEN <<info>> ELSE cur

\* append to AllGateways and designate the default of the record's family
AddGateway(cfg, info) ==
    [AllGateways |-> Append(cfg.AllGateways, info),
     DefaultIPv4 |-> IF info.IPVersion = "IPv4"
                     THEN SetDefault(cfg.DefaultIPv4, info) ELSE cfg.DefaultIPv4,
     DefaultIPv6 |-> IF info.IPVersion = "IPv6"
                     THEN SetDefault(cfg.DefaultIPv6, info) ELSE cfg.DefaultIPv6]

\* ipVersion := "IPv4"; if net.ParseIP(gateway).To4() == nil { ipVersion = "IPv6" }
GatewayIPVersion(gateway) == IF To4(ParseIP(gateway)) = "nil" THEN "IPv6" ELSE "IPv4"

\* ---- Windows: one PowerShell command per family, records as
\* [InterfaceAlias, NextHop, RouteMetric]
WinRawRoutes ==
    {[InterfaceAlias |-> "Ethernet", NextHop |-> "192.168.1.1", RouteMetric |-> 25],
     [InterfaceAlias |-> "Wi-Fi", NextHop |-> "10.0.0.1", RouteMetric |-> 50],
     [InterfaceAlias |-> "", NextHop |-> "192.168.1.1", RouteMetric |-> 0],
     [InterfaceAlias |-> "Ethernet", NextHop |-> "", RouteMetric |-> 0]}

RECURSIVE WinAddRoutes(_, _, _)
WinAddRoutes(cfg, routes, ver) ==
    IF routes = <<>> THEN cfg
    ELSE LET r == Head(routes)
             next == IF r.InterfaceAlias # "" /\ r.NextHop # ""
                     THEN AddGateway(cfg, GatewayInfo(r.InterfaceAlias, r.NextHop, ver,
                                                      r.RouteMetric, "PowerShell"))
                     ELSE cfg
         IN WinAddRoutes(next, Tail(routes), ver)

\* one "if err == nil { single object first, else array }" block of getWindowsGateway
WinParseFamily(cfg, out, ver) ==
    IF out.kind = "fail" THEN cfg
    ELSE IF out.kind \in {"object", "null"} THEN WinAddRoutes(cfg, out.val, ver)
    ELSE IF UnmarshalArrayOk(out) THEN WinAddRoutes(cfg, out.val, ver)
    ELSE cfg

\* ---- Linux tier 1: ip -j route show default, records as [dev, gateway, metric]
LinRawRoutes ==
    {[dev |-> "eth0", gateway |-> "192.168.1.1", metric |-> 100],
     [dev |-> "wlan0", gateway |-> "10.0.0.1", metric |-> 600],
     [dev |-> "eth0", gateway |-> "fe80::1", metric |-> 1024],
     [dev |-> "wlan0", gateway |-> "2001:db8::1", metric |-> 0],
     [dev |-> "", gateway |-> "192.168.1.1", metric |-> 0],
     [dev |-> "eth0", gateway |-> "", metric |-> 0]}

RECURSIVE LinAddRoutes(_, _)
LinAddRoutes(cfg, routes) ==
    IF routes = <<>> THEN cfg
    ELSE LET r == Head(routes)
             next == IF r.dev # "" /\ r.gateway # ""
                     THEN AddGateway(cfg, GatewayInfo(r.dev, r.gateway,
                                                      GatewayIPVersion(r.gateway),
                                                      r.metric, "ip -j route"))
                     ELSE cfg
         IN LinAddRoutes(next, Tail(routes))

\* ---- Linux tier 2: ip route show default, a line is strings.Fields(line)
IPRouteOutputs ==
    LET Lines ==
        {<<"default", "via", "192.168.1.1", "dev", "eth0">>,
         <<"default", "via", "10.0.0.1", "dev", "wlan0", "proto", "dhcp", "metric", "600">>,
         <<"default", "via", "fe80::1", "dev", "eth0", "metric", "x1">>,
         <<"default", "via", "10.0.0.1", "dev">>,
         <<"default", "via", "10.0.0.1", "metric", "100">>,
         <<"default", "dev", "ppp0", "scope", "link">>,
         <<"10.0.0.0/8", "via", "10.0.0.1", "dev", "eth0">>,
         <<>>}
    IN {CmdFail} \cup {[kind |-> "text", val |-> s] : s \in SeqsUpTo(Lines, MaxRecs)}

\* for i, part := range parts { if part == key && i+1 < len(parts) { v = parts[i+1]; break } }
FieldAfter(parts, key) ==
    LET hits == {i \in 1..Len(parts) : parts[i] = key /\ i + 1 <= Len(parts)}
    IN IF hits = {} THEN ""
       ELSE parts[(CHOOSE i \in hits : \A j \in hits : i <= j) + 1]

RECURSIVE parseIPRouteLines(_, _)
parseIPRouteLines(cfg, lines) ==
    IF lines = <<>> THEN cfg
    ELSE LET parts == Head(lines)
             iface == FieldAfter(parts, "dev")
             \* strconv.Atoi over the token vocabulary of the model
             Atoi == [t \in {"0", "100", "600"} |->
                         CASE t = "0" -> 0 [] t = "100" -> 100 [] t = "600" -> 600]
             \* metric := 0; the first "metric" token followed by a token decides it
             m == FieldAfter(parts, "metric")
             metric == IF m # "" /\ m \in DOMAIN Atoi THEN Atoi[m] ELSE 0
             next == IF Len(parts) >= 4 /\ parts[1] = "default" /\ parts[2] = "via"
                        /\ iface # "" /\ parts[3] # ""
                     THEN AddGateway(cfg, GatewayInfo(iface, parts[3],
                                                      GatewayIPVersion(parts[3]),
                                                      metric, "ip route"))
                     ELSE cfg
         IN parseIPRouteLines(next, Tail(lines))

parseProcNetRouteErrNil == NoErr

\* ---- Linux tier 3: the raw table is not parsed
parseProcNetRouteErr == Untyped(<<"parsing", "/proc/net/route", "not", "implemented">>)

\* "if len(gatewayConfig.AllGateways) == 0 {" : the guard of tiers 2 and 3
FallbackAlways(cfg) == TRUE

FallbackNeeded(cfg) == Len(cfg.AllGateways) = 0

(***************************************************************************)
(* Gateway adapter: the calls                                              *)
(***************************************************************************)
ErrCommand == Untyped(<<"exit", "status", "1">>)

\* ShowGatewayInformation (lines 45-49) picks one path by platform
ShowGatewayInformation_Call ==
    /\ gwPc = "idle"
    /\ gwOp' = "ShowGatewayInformation"
    /\ gwIPVersion' = ""
    /\ gwPc' = IF IsWindows THEN "win4" ELSE "lin1"
    /\ OthersUnchanged({"gw"})
    /\ UNCHANGED <<platform, gatewayConfig, gwErr, gwResult, tiersTried>>

\* GetDefaultGateway (line 422) starts with getWindowsGateway on every platform
GetDefaultGateway_Call(ipVersion) ==
    /\ gwPc = "idle"
    /\ gwOp' = "GetDefaultGateway"
    /\ gwIPVersion' = ipVersion
    /\ gwPc' = "win4"
    /\ OthersUnchanged({"gw"})
    /\ UNCHANGED <<platform, gatewayConfig, gwErr, gwResult, tiersTried>>

\* getWindowsGateway, the IPv4 command and its parse (lines 150-211)
getWindowsGateway_IPv4(out) ==
    /\ gwPc = "win4"
    /\ gatewayConfig' = WinParseFamily(EmptyGatewayConfig, out, "IPv4")
    /\ gwPc' = "win6"
    /\ OthersUnchanged({"gw"})
    /\ UNCHANGED <<platform, gwOp, gwIPVersion, gwErr, gwResult, tiersTried>>

\* getWindowsGateway, the IPv6 command, its parse and "return gatewayConfig, nil"
getWindowsGateway_IPv6(out) ==
    /\ gwPc = "win6"
    /\ gatewayConfig' = WinParseFamily(gatewayConfig, out, "IPv6")
    /\ gwErr' = NoErr
    /\ gwPc' = "winRet"
    /\ OthersUnchanged({"gw"})
    /\ UNCHANGED <<platform, gwOp, gwIPVersion, gwResult, tiersTried>>

\* GetDefaultGateway, lines 423-425: on Linux the result is replaced by getLinuxGateway's
GetDefaultGateway_Linux ==
    /\ gwPc = "winRet"
    /\ gwOp = "GetDefaultGateway"
    /\ IsLinux
    /\ gwPc' = "lin1"
    /\ gatewayConfig' = EmptyGatewayConfig
    /\ tiersTried' = <<>>
    /\ OthersUnchanged({"gw"})
    /\ UNCHANGED <<platform, gwOp, gwIPVersion, gwErr, gwResult>>

\* getLinuxGateway, tier 1 (lines 280-321) and the guard of tier 2 (line 324)
getLinuxGateway_Tier1(out) ==
    /\ gwPc = "lin1"
    /\ LET cfg == IF out.kind # "fail" /\ UnmarshalArrayOk(out)
                  THEN LinAddRoutes(EmptyGatewayConfig, out.val) ELSE EmptyGatewayConfig
       IN /\ gatewayConfig' = cfg
          /\ gwErr' = IF out.kind = "fail" THEN ErrCommand
                      ELSE IF ~UnmarshalArrayOk(out)
                      THEN Untyped(<<"json:", "cannot", "unmarshal">>) ELSE NoErr
          /\ tiersTried' = <<[tier |-> "ip -j route", yield |-> Len(cfg.AllGateways)]>>
          /\ gwPc' = IF FallbackNeeded(cfg) THEN "lin2" ELSE "linRet"
    /\ OthersUnchanged({"gw"})
    /\ UNCHANGED <<platform, gwOp, gwIPVersion, gwResult>>

\* getLinuxGateway, tier 2 (lines 325-328) and the guard of tier 3 (line 332)
getLinuxGateway_Tier2(out) ==
    /\ gwPc = "lin2"
    /\ LET cfg == IF out.kind = "fail" THEN gatewayConfig 
                  ELSE parseIPRouteLines(EmptyGatewayConfig, out.val)
           got == IF out.kind = "fail" THEN 0 ELSE Len(cfg.AllGateways)
       IN /\ gatewayConfig' = cfg
          /\ gwErr' = IF out.kind = "fail" THEN ErrCommand ELSE NoErr
          /\ tiersTried' = Append(tiersTried, [tier |-> "ip route", yield |-> got])
          /\ gwPc' = IF FallbackNeeded(cfg) THEN "lin3" ELSE "linRet"
    /\ OthersUnchanged({"gw"})
    /\ UNCHANGED <<platform, gwOp, gwIPVersion, gwResult>>

\* getLinuxGateway, tier 3 (line 333): parseProcNetRoute
getLinuxGateway_Tier3 ==
    /\ gwPc = "lin3"
    /\ gatewayConfig' = EmptyGatewayConfig
    /\ gwErr' = parseProcNetRouteErr
    /\ tiersTried' = Append(tiersTried, [tier |-> "/proc/net/route", yield |-> 0])
    /\ gwPc' = "linRet"
    /\ OthersUnchanged({"gw"})
    /\ UNCHANGED <<platform, gwOp, gwIPVersion, gwResult>>

GwAcquired ==
    \/ gwPc = "linRet"
    \/ gwPc = "winRet" /\ ~(gwOp = "GetDefaultGateway" /\ IsLinux)

\* ShowGatewayInformation, lines 51-142: the error is returned, otherwise nil
ShowGatewayInformation_Return ==
    /\ GwAcquired
    /\ gwOp = "ShowGatewayInformation"
    /\ gwResult' = [info |-> <<>>, err |-> gwErr]
    /\ gwPc' = "done"
    /\ OthersUnchanged({"gw"})
    /\ UNCHANGED <<platform, gwOp, gwIPVersion, gatewayConfig, gwErr, tiersTried>>

\* GetDefaultGateway, lines 427-439
GetDefaultGateway_Return ==
    /\ GwAcquired
    /\ gwOp = "GetDefaultGateway"
    /\ gwResult' =
           IF gwErr # NoErr THEN [info |-> <<>>, err |-> gwErr]
           ELSE IF gwIPVersion = "IPv4" /\ gatewayConfig.DefaultIPv4 # <<>>
                THEN [info |-> gatewayConfig.DefaultIPv4, err |-> NoErr]
           ELSE IF gwIPVersion = "IPv6" /\ gatewayConfig.DefaultIPv6 # <<>>
                THEN [info |-> gatewayConfig.DefaultIPv6, err |-> NoErr]
           ELSE [info |-> <<>>,
                 err |-> Untyped(<<"no", "default", gwIPVersion, "gateway", "found">>)]
    /\ gwPc' = "done"
    /\ OthersUnchanged({"gw"})
    /\ UNCHANGED <<platform, gwOp, gwIPVersion, gatewayConfig, gwErr, tiersTried>>

GwNext ==
    \/ ShowGatewayInformation_Call
    \/ \E v \in {"IPv4", "IPv6"} : GetDefaultGateway_Call(v)
    \/ gwPc = "win4" /\ \E out \in JSONOutputs(WinRawRoutes) : getWindowsGateway_IPv4(out)
    \/ gwPc = "win6" /\ \E out \in JSONOutputs(WinRawRoutes) : getWindowsGateway_IPv6(out)
    \/ GetDefaultGateway_Linux
    \/ gwPc = "lin1" /\ \E out \in JSONOutputs(LinRawRoutes) : getLinuxGateway_Tier1(out)
    \/ gwPc = "lin2" /\ \E out \in IPRouteOutputs : getLinuxGateway_Tier2(out)
    \/ getLinuxGateway_Tier3
    \/ ShowGatewayInformation_Return
    \/ GetDefaultGateway_Return

(***************************************************************************)
(* Process runner: the call                                                *)
(***************************************************************************)
ErrNotFound == Untyped(<<"exec:", "executable", "file", "not", "found", "in", "$PATH">>)

ErrPermission == Untyped(<<"fork/exec:", "permission", "denied">>)

ErrDeadline == Untyped(<<"context", "deadline", "exceeded">>)

\* utils.IsTimeoutError
IsTimeoutError(err) ==
    IF err.typed THEN err.Type = "Timeout"
    ELSE Contains(err.msg, <<"timeout">>) \/ Contains(err.msg, <<"deadline", "exceeded">>)

\* cmd.Output() = Start + Wait: it returns once the exited child has been reaped
OutputReturnsUnwaited(c) == c.state \in {"running", "exited"}

OutputReturns(c) == c.state = "exited"

\* context.WithTimeout, exec.CommandContext and the cmd.Start inside cmd.Output;
\* deadline is the time left until ctx.Done(): the timeout, or what is left of the
\* parent context if that is less (0: the context has already expired)
StartChild(deadline, startFails, runFor, exitCode) ==
    /\ cmdDeadline' = deadline
    /\ cmdClock' = 0
    /\ startCalls' = startCalls + 1
    /\ IF startFails # "no"
       THEN /\ cmdErr' = IF startFails = "not found" THEN ErrNotFound ELSE ErrPermission
            /\ cmdPc' = "returned"
            /\ ctxDone' = FALSE
            /\ child' = NoChild
            /\ UNCHANGED spawned
       ELSE IF deadline = 0
       THEN \* Start: "case <-c.ctx.Done(): return c.ctx.Err()"
            /\ cmdErr' = ErrDeadline
            /\ cmdPc' = "returned"
            /\ ctxDone' = TRUE
            /\ child' = NoChild
            /\ UNCHANGED spawned
       ELSE /\ child' = [state |-> "running", runFor |-> runFor,
                         exitCode |-> exitCode, cause |-> "none"]
            /\ spawned' = spawned + 1
            /\ cmdPc' = "waiting"
            /\ ctxDone' = FALSE
            /\ cmdErr' = NoErr

\* CommandWithTimeout up to the cmd.Start inside cmd.Output
CommandWithTimeout_Start(deadline, startFails, runFor, exitCode) ==
    /\ cmdPc = "idle"
    /\ StartChild(deadline, startFails, runFor, exitCode)
    /\ OthersUnchanged({"cmd"})
    /\ UNCHANGED platform

\* time passes while the child runs and the deadline has not elapsed
Tick ==
    /\ cmdPc = "waiting"
    /\ child.state = "running"
    /\ cmdClock < child.runFor
    /\ cmdClock < cmdDeadline
    /\ cmdClock' = cmdClock + 1
    /\ OthersUnchanged({"cmd"})
    /\ UNCHANGED <<platform, cmdPc, cmdDeadline, ctxDone, child, cmdErr, spawned, startCalls>>

\* the child exits by itself
ChildExits ==
    /\ child.state = "running"
    /\ cmdClock = child.runFor
    /\ child' = [child EXCEPT !.state = "exited", !.cause = "exit"]
    /\ OthersUnchanged({"cmd"})
    /\ UNCHANGED <<platform, cmdPc, cmdDeadline, cmdClock, ctxDone, cmdErr, spawned, startCalls>>

\* ctx.Done(): exec's watcher calls Process.Kill on the running child
DeadlineElapses ==
    /\ cmdPc = "waiting"
    /\ ~ctxDone
    /\ cmdClock = cmdDeadline
    /\ ctxDone' = TRUE
    /\ child' = IF child.state = "running"
                THEN [child EXCEPT !.state = "exited", !.cause = "killed"]
                ELSE child
    /\ OthersUnchanged({"cmd"})
    /\ UNCHANGED <<platform, cmdPc, cmdDeadline, cmdClock, cmdErr, spawned, startCalls>>

\* cmd.Output returns: Wait has reaped the child; "defer cancel()"
CommandWithTimeout_Return ==
    /\ cmdPc = "waiting"
    /\ OutputReturns(child)
    /\ child' = IF child.state = "exited" THEN [child EXCEPT !.state = "reaped"] ELSE child
    \* the error of Wait (os/exec, Go 1.20+): the ExitError of the child if it did not exit
    \* with 0, else ctx.Err() if the watcher has signalled the child (also one that had
    \* exited but was not yet reaped), else nil
    /\ cmdErr' = IF child.cause = "killed"
                 THEN IF IsWindows THEN Untyped(<<"exit", "status", "1">>)
                      ELSE Untyped(<<"signal:", "killed">>)
                 ELSE IF child.exitCode # 0 THEN Untyped(<<"exit", "status", "1">>)
                 ELSE IF ctxDone THEN ErrDeadline
                 ELSE NoErr
    /\ cmdPc' = "returned"
    /\ OthersUnchanged({"cmd"})
    /\ UNCHANGED <<platform, cmdDeadline, cmdClock, ctxDone, spawned, startCalls>>

CmdNext ==
    \/ \E d \in 0..MaxTime, f \in {"no", "not found", "permission denied"}, r \in 0..MaxTime, e \in {0, 1} :
          CommandWithTimeout_Start(d, f, r, e)
    \/ Tick
    \/ ChildExits
    \/ DeadlineElapses
    \/ CommandWithTimeout_Return

(***************************************************************************)
(* DNS adapter                                                             *)
(***************************************************************************)
NewDNSInfo(iface) == [Interface |-> iface, IPv4 |-> <<>>, IPv6 |-> <<>>, All |-> <<>>]

\* dnsInfo.All = append(...); if ip := net.ParseIP(s); ip != nil { To4 ? IPv4 : IPv6 }
AddServerNilIsIPv6(info, server) ==
    [info EXCEPT !.All = Append(@, server),
                 !.IPv4 = IF To4(ParseIP(server)) # "nil" THEN Append(@, server) ELSE @,
                 !.IPv6 = IF To4(ParseIP(server)) = "nil" THEN Append(@, server) ELSE @]

AddServer(info, server) ==
    LET ip == ParseIP(server)
    IN [info EXCEPT !.All = Append(@, server),
                    !.IPv4 = IF ip # "nil" /\ To4(ip) # "nil" THEN Append(@, server) ELSE @,
                    !.IPv6 = IF ip # "nil" /\ To4(ip) = "nil" THEN Append(@, server) ELSE @]

RECURSIVE AddServers(_, _)
AddServers(info, servers) ==
    IF servers = <<>> THEN info
    ELSE AddServers(AddServer(info, Head(servers)), Tail(servers))

\* "if len(dnsInfo.All) > 0 { dnsConfig.Servers = append(dnsConfig.Servers, dnsInfo) }"
AppendIfAny(cfg, info) ==
    IF Len(info.All) > 0 THEN [cfg EXCEPT !.Servers = Append(@, info)] ELSE cfg

\* ---- structured strategy: PowerShell records [InterfaceAlias, ServerAddresses];
\* InterfaceAlias is <<>> when the key is missing or no string
WinDNSEntries ==
    {[InterfaceAlias |-> <<"Ethernet">>, ServerAddresses |-> <<"8.8.8.8", "2001:db8::1">>],
     [InterfaceAlias |-> <<"Wi-Fi">>, ServerAddresses |-> <<"1.1.1.1">>],
     [InterfaceAlias |-> <<"Loopback">>, ServerAddresses |-> <<>>],
     [InterfaceAlias |-> <<>>, ServerAddresses |-> <<"8.8.8.8">>]}

RECURSIVE WinDNSEntriesLoop(_, _)
WinDNSEntriesLoop(cfg, entries) ==
    IF entries = <<>> THEN cfg
    ELSE LET e == Head(entries)
             next == IF e.InterfaceAlias = <<>> THEN cfg
                     ELSE AppendIfAny(cfg, AddServers(NewDNSInfo(e.InterfaceAlias[1]),
                                                      e.ServerAddresses))
         IN WinDNSEntriesLoop(next, Tail(entries))

\* getWindowsDNS: [cfg, err]; only "var dnsEntries []map[string]interface{}" is tried
getWindowsDNS(out) ==
    IF out.kind = "fail"
    THEN [cfg |-> <<>>,
          err |-> Untyped(<<"failed", "to", "execute", "PowerShell", "command:",
                            "exit", "status", "1">>)]
    ELSE IF ~UnmarshalArrayOk(out)
    THEN [cfg |-> <<>>,
          err |-> Untyped(<<"failed", "to", "parse", "PowerShell", "output:",
                            "json:", "cannot", "unmarshal">>)]
    ELSE [cfg |-> <<WinDNSEntriesLoop([Servers |-> <<>>, SearchList |-> <<>>], out.val)>>,
          err |-> NoErr]

\* ---- file strategy: what os.ReadFile("/etc/resolv.conf") gives: an error, or the lines,
\* a line being strings.Fields(TrimSpace(line))
ResolvConfs ==
    LET ResolvLines ==
        {<<>>,
         <<"#nameserver", "1.1.1.1">>,
         <<"nameserver", "8.8.8.8">>,
         <<"nameserver", "2001:db8::1">>,
         <<"nameserver", "::ffff:10.0.0.1">>,
         <<"nameserver", "bogus">>,
         <<"nameserver">>,
         <<"nameserver", "1.1.1.1", "8.8.8.8">>,
         <<"search", "example.com", "lan">>}
    IN {[kind |-> "fail", val |-> <<>>]}
       \cup {[kind |-> "text", val |-> s] : s \in SeqsUpTo(ResolvLines, MaxLines)}

\* the loop of getLinuxDNS over the lines: st = [info, search]
RECURSIVE ResolvLoop(_, _)
ResolvLoop(st, lines) ==
    IF lines = <<>> THEN st
    ELSE LET fields == Head(lines)
             \* strings.HasPrefix(line, "#")
             IsComment == Len(fields) > 0 /\ fields[1] \in {"#", "#nameserver"}
             next == IF fields = <<>> \/ IsComment \/ Len(fields) < 2 THEN st
                     ELSE IF fields[1] = "nameserver"
                          THEN [st EXCEPT !.info = AddServer(@, fields[2])]
                     ELSE IF fields[1] = "search"
                          THEN [st EXCEPT !.search = @ \o Tail(fields)]
                     ELSE st
         IN ResolvLoop(next, Tail(lines))

getLinuxDNS(content) ==
    IF content.kind = "fail"
    THEN [cfg |-> <<>>,
          err |-> Untyped(<<"failed", "to", "read", "/etc/resolv.conf:", "no", "such", "file">>)]
    ELSE LET st == ResolvLoop([info |-> NewDNSInfo("system"), search |-> <<>>], content.val)
         IN [cfg |-> <<AppendIfAny([Servers |-> <<>>, SearchList |-> st.search], st.info)>>,
             err |-> NoErr]

NoInput == [kind |-> "none", val |-> <<>>]

\* ShowDNSInformation (lines 40-44): if IsWindows getWindowsDNS else getLinuxDNS;
\* GetDNSServersByInterface (295) and TestConnectivity (ping.go 429) start with getWindowsDNS
DNS_Call(op, arg) ==
    /\ dnsPc = "idle"
    /\ dnsOp' = op
    /\ dnsArg' = arg
    /\ dnsPc' = IF op = "ShowDNSInformation" /\ ~IsWindows THEN "lin" ELSE "win"
    /\ OthersUnchanged({"dns"})
    /\ UNCHANGED <<platform, dnsConfig, dnsErr, dnsResult, dnsInput, strategiesRun>>

getWindowsDNS_Run(out) ==
    /\ dnsPc = "win"
    /\ LET r == getWindowsDNS(out)
       IN dnsConfig' = r.cfg /\ dnsErr' = r.err
    /\ dnsInput' = out
    /\ strategiesRun' = Append(strategiesRun, "PowerShell")
    /\ dnsPc' = "winRet"
    /\ OthersUnchanged({"dns"})
    /\ UNCHANGED <<platform, dnsOp, dnsArg, dnsResult>>

\* "if utils.IsLinux() { dnsConfig, err = getLinuxDNS() }" (dns.go 296, ping.go 430):
\* getLinuxDNS is entered, with its own fresh dnsConfig (line 181) and nothing read
\* yet; what getWindowsDNS returned is overwritten by its result
DNS_ThenLinux ==
    /\ dnsPc = "winRet"
    /\ dnsOp # "ShowDNSInformation"
    /\ IsLinux
    /\ dnsPc' = "lin"
    /\ dnsConfig' = <<>>
    /\ dnsErr' = NoErr
    /\ dnsInput' = NoInput
    /\ OthersUnchanged({"dns"})
    /\ UNCHANGED <<platform, dnsOp, dnsArg, dnsResult, strategiesRun>>

getLinuxDNS_Run(content) ==
    /\ dnsPc = "lin"
    /\ LET r == getLinuxDNS(content)
       IN dnsConfig' = r.cfg /\ dnsErr' = r.err
    /\ dnsInput' = content
    /\ strategiesRun' = Append(strategiesRun, "resolv.conf")
    /\ dnsPc' = "linRet"
    /\ OthersUnchanged({"dns"})
    /\ UNCHANGED <<platform, dnsOp, dnsArg, dnsResult>>

\* the public function returns. GetDNSServersByInterface, lines 300-310: the error, or the
\* first record of the interface; TestConnectivity, ping.go 434-446: the first IPv4 server
\* of the first record that has one
DNS_Return ==
    /\ \/ dnsPc = "linRet"
       \/ dnsPc = "winRet" /\ ~(dnsOp # "ShowDNSInformation" /\ IsLinux)
    /\ dnsResult' =
         LET Servers == dnsConfig[1].Servers
             First(hits) == CHOOSE i \in hits : \A j \in hits : i <= j
             named == {i \in 1..Len(Servers) : Servers[i].Interface = dnsArg}
             withIPv4 == {i \in 1..Len(Servers) : Len(Servers[i].IPv4) > 0}
         IN CASE dnsOp = "ShowDNSInformation" -> [info |-> <<>>, err |-> dnsErr]
              [] dnsOp = "GetDNSServersByInterface" ->
                   IF dnsErr # NoErr THEN [info |-> <<>>, err |-> dnsErr]
                   ELSE IF named = {}
                   THEN [info |-> <<>>,
                         err |-> Untyped(<<"no", "DNS", "servers", "found", "for",
                                           "interface:", dnsArg>>)]
                   ELSE [info |-> <<Servers[First(named)]>>, err |-> NoErr]
              [] dnsOp = "TestConnectivity" ->
                   [info |-> IF dnsErr # NoErr \/ withIPv4 = {} THEN <<>>
                             ELSE <<Servers[First(withIPv4)].IPv4[1]>>,
                    err |-> NoErr]
    /\ dnsPc' = "done"
    /\ OthersUnchanged({"dns"})
    /\ UNCHANGED <<platform, dnsOp, dnsArg, dnsConfig, dnsErr, dnsInput, strategiesRun>>

DnsNext ==
    \/ \E op \in {"ShowDNSInformation", "GetDNSServersByInterface", "TestConnectivity"} :
          DNS_Call(op, IF op = "GetDNSServersByInterface" THEN "system" ELSE "")
    \/ DNS_Call("GetDNSServersByInterface", "Ethernet")
    \/ dnsPc = "win" /\ \E out \in JSONOutputs(WinDNSEntries) : getWindowsDNS_Run(out)
    \/ DNS_ThenLinux
    \/ dnsPc = "lin" /\ \E content \in ResolvConfs : getLinuxDNS_Run(content)
    \/ DNS_Return

(***************************************************************************)
(* Route-type classification (the "Determine route type" block of each     *)
(* route parser). A destination is a sequence of tokens in which "/" is a  *)
(* token of its own: "10.0.0.0/8" is <<"10.0.0.0", "/", "8">>.             *)
(***************************************************************************)
\* the destination strings given to the classifiers
Destinations == SeqsUpTo({"default", "0.0.0.0", "::", "/", "0", "10.0.0.1"}, MaxDestLen)

\* getWindowsRoutes: "if destination == "" { continue }", then the "Determine route type" block
getWindowsRoutes_Classify ==
    /\ rtPc = "input"
    /\ rtDest # <<>>
    /\ rtParser' = "PowerShell"
    /\ rtType' =
           IF Contains(rtDest, <<"/">>)
           THEN IF rtDest = <<"0.0.0.0", "/", "0">> \/ rtDest = <<"::", "/", "0">>
                THEN "Default" ELSE "Network"
           ELSE "Host"
    /\ rtPc' = "classified"
    /\ OthersUnchanged({"rt"})
    /\ UNCHANGED <<platform, rtDest>>

\* getLinuxRoutes, the "ip -j route" tier
getLinuxRoutes_Classify ==
    /\ rtPc = "input"
    /\ rtDest # <<>>
    /\ rtParser' = "ip -j route"
    /\ rtType' =
           IF Contains(rtDest, <<"/">>)
           THEN IF rtDest = <<"default">> \/ rtDest = <<"0.0.0.0", "/", "0">> \/ rtDest = <<"::", "/", "0">>
                THEN "Default" ELSE "Network"
           ELSE "Host"
    /\ rtPc' = "classified"
    /\ OthersUnchanged({"rt"})
    /\ UNCHANGED <<platform, rtDest>>

\* parseLinuxIPRouteOutput, the "ip route" tier: destination = parts[0] is never empty
parseLinuxIPRouteOutput_Classify ==
    /\ rtPc = "input"
    /\ rtDest # <<>>
    /\ rtParser' = "ip route"
    /\ rtType' =
           IF Contains(rtDest, <<"/">>)
           THEN IF rtDest = <<"default">> \/ rtDest = <<"0.0.0.0", "/", "0">> \/ rtDest = <<"::", "/", "0">>
                THEN "Default" ELSE "Network"
           ELSE "Host"
    /\ rtPc' = "classified"
    /\ OthersUnchanged({"rt"})
    /\ UNCHANGED <<platform, rtDest>>

RtNext ==
    \/ parseLinuxIPRouteOutput_Classify
    \/ getLinuxRoutes_Classify
    \/ getWindowsRoutes_Classify

(***************************************************************************)
(* Connection status normalization. A status string is a sequence of       *)
(* one-character strings.                                                  *)
(***************************************************************************)
LowerLetters == <<"a", "b", "c", "d", "e", "f", "g", "h", "i", "j", "k", "l", "m", "n", "o", "p", "q", "r", "s", "t", "u", "v", "w", "x", "y", "z">>

UpperLetters == <<"A", "B", "C", "D", "E", "F", "G", "H", "I", "J", "K", "L", "M", "N", "O", "P", "Q", "R", "S", "T", "U", "V", "W", "X", "Y", "Z">>

\* strings.ToUpper (unicode.ToUpper on ASCII)
ToUpper(s) ==
    LET UpperChar(c) ==
            IF \E i \in DOMAIN LowerLetters : LowerLetters[i] = c
            THEN UpperLetters[CHOOSE i \in DOMAIN LowerLetters : LowerLetters[i] = c]
            ELSE c
    IN [i \in DOMAIN s |-> UpperChar(s[i])]

\* the status strings the code names (the case labels of mapGopsutilStatus) and those of the inputs
St ==
    [ESTABLISHED |-> <<"E", "S", "T", "A", "B", "L", "I", "S", "H", "E", "D">>,
     LISTEN |-> <<"L", "I", "S", "T", "E", "N">>,
     SYN_SENT |-> <<"S", "Y", "N", "_", "S", "E", "N", "T">>,
     SYN_RECV |-> <<"S", "Y", "N", "_", "R", "E", "C", "V">>,
     FIN_WAIT1 |-> <<"F", "I", "N", "_", "W", "A", "I", "T", "1">>,
     FIN_WAIT2 |-> <<"F", "I", "N", "_", "W", "A", "I", "T", "2">>,
     TIME_WAIT |-> <<"T", "I", "M", "E", "_", "W", "A", "I", "T">>,
     CLOSE |-> <<"C", "L", "O", "S", "E">>,
     CLOSE_WAIT |-> <<"C", "L", "O", "S", "E", "_", "W", "A", "I", "T">>,
     LAST_ACK |-> <<"L", "A", "S", "T", "_", "A", "C", "K">>,
     LISTENING |-> <<"L", "I", "S", "T", "E", "N", "I", "N", "G">>,
     NONE |-> <<"N", "O", "N", "E">>,
     CLOSED |-> <<"C", "L", "O", "S", "E", "D">>,
     CLOSING |-> <<"C", "L", "O", "S", "I", "N", "G">>]

\* the case labels that return themselves
StatusVocabulary == {St.ESTABLISHED, St.LISTEN, St.SYN_SENT, St.SYN_RECV, St.FIN_WAIT1, St.FIN_WAIT2, St.TIME_WAIT, St.CLOSE, St.CLOSE_WAIT, St.LAST_ACK}

\* the default branch: "return strings.ToUpper(status)"
StatusDefaultUnchanged(status) == status

StatusDefault(status) == ToUpper(status)

mapGopsutilStatus(status) ==
    LET u == ToUpper(status)
    IN IF u \in StatusVocabulary THEN u
       ELSE IF u = St.LISTENING THEN St.LISTEN
       ELSE StatusDefault(status)

\* the status strings given: every letter-case spelling of the words
StatusInputs ==
    LET LowerChar(c) ==
            IF \E i \in DOMAIN UpperLetters : UpperLetters[i] = c
            THEN LowerLetters[CHOOSE i \in DOMAIN UpperLetters : UpperLetters[i] = c]
            ELSE c
        Spellings(w) ==
            {[i \in DOMAIN w |-> IF i \in L THEN LowerChar(w[i]) ELSE w[i]] : L \in SUBSET DOMAIN w}
    IN UNION {Spellings(w) :
                w \in StatusVocabulary \cup {St.LISTENING, St.NONE, St.CLOSED, St.CLOSING, <<>>}}

\* getActiveConnections: "status := mapGopsutilStatus(conn.Status)"
Normalize ==
    /\ stPc = "input"
    /\ stOut' = mapGopsutilStatus(stIn)
    /\ stPc' = "once"
    /\ OthersUnchanged({"st"})
    /\ UNCHANGED <<platform, stIn, stOut2>>

\* the normalized status normalized again
NormalizeAgain ==
    /\ stPc = "once"
    /\ stOut2' = mapGopsutilStatus(stOut)
    /\ stPc' = "twice"
    /\ OthersUnchanged({"st"})
    /\ UNCHANGED <<platform, stIn, stOut>>

StNext == Normalize \/ NormalizeAgain

(***************************************************************************)
(* Connection collection: getActiveConnections                             *)
(***************************************************************************)
\* the outcomes of psnet.ConnectionsWithContext(ctx, "all")
SocketEnumerations ==
    LET \* the sockets that can be reported (gopsutil ConnectionStat)
        Sockets ==
        { [Laddr |-> [IP |-> "10.0.0.1", Port |-> 22], Raddr |-> [IP |-> "", Port |-> 0],
           Type |-> 1, Status |-> St.LISTEN, Pid |-> 1],
          [Laddr |-> [IP |-> "10.0.0.1", Port |-> 22], Raddr |-> [IP |-> "8.8.8.8", Port |-> 443],
           Type |-> 1, Status |-> St.ESTABLISHED, Pid |-> 2],
          [Laddr |-> [IP |-> "192.168.1.1", Port |-> 53], Raddr |-> [IP |-> "0.0.0.0", Port |-> 0],
           Type |-> 2, Status |-> St.NONE, Pid |-> 3],
          [Laddr |-> [IP |-> "fe80::1", Port |-> 80], Raddr |-> [IP |-> "::", Port |-> 0],
           Type |-> 1, Status |-> St.LISTENING, Pid |-> 0],
          [Laddr |-> [IP |-> "2001:db8::1", Port |-> 80], Raddr |-> [IP |-> "fe80::1", Port |-> 80],
           Type |-> 3, Status |-> <<"l", "i", "s", "t", "e", "n">>, Pid |-> 1],
          [Laddr |-> [IP |-> "", Port |-> 0], Raddr |-> [IP |-> "", Port |-> 0],
           Type |-> 1, Status |-> St.LISTEN, Pid |-> 2],
          [Laddr |-> [IP |-> "", Port |-> 0], Raddr |-> [IP |-> "", Port |-> 0],
           Type |-> 5, Status |-> St.NONE, Pid |-> 3],
          [Laddr |-> [IP |-> "8.8.8.8", Port |-> 53], Raddr |-> [IP |-> "", Port |-> 0],
           Type |-> 4, Status |-> <<>>, Pid |-> 2],
          [Laddr |-> [IP |-> "1.1.1.1", Port |-> 22], Raddr |-> [IP |-> "10.0.0.1", Port |-> 22],
           Type |-> 0, Status |-> St.CLOSE_WAIT, Pid |-> 1],
          [Laddr |-> [IP |-> "0.0.0.0", Port |-> 443], Raddr |-> [IP |-> "", Port |-> 0],
           Type |-> 1, Status |-> St.LISTEN, Pid |-> 1] }
    IN {[kind |-> "fail", val |-> <<>>]}
       \cup {[kind |-> "ok", val |-> c] : c \in SeqsUpTo(Sockets, MaxRecs)}

\* the processes psproc.ProcessesWithContext can list, with the outcome of NameWithContext
ProcessPids == {1, 2}

\* the outcomes of psproc.ProcessesWithContext(ctx): for every PID, whether it is
\* listed and what reading its name gives
ProcessEnumerations ==
    {[kind |-> "fail", val |-> <<>>]}
    \cup {[kind |-> "ok", val |-> f] : f \in [ProcessPids -> {"absent", "error", "sshd", ""}]}

EmptyProcessMap == [p \in {} |-> ""]

ProcessNameUnknown(pmap, pid) == IF pid \in DOMAIN pmap THEN pmap[pid] ELSE "unknown"

\* "processName := processMap[conn.Pid]": the zero value for a missing key
ProcessName(pmap, pid) == IF pid \in DOMAIN pmap THEN pmap[pid] ELSE ""

HasLocalAddrAlways(conn) == TRUE

\* "if conn.Laddr.IP == "" { continue }", negated
HasLocalAddr(conn) == conn.Laddr.IP # ""

getConnectionType(connType) ==
    CASE connType = 1 -> "tcp"
      [] connType = 2 -> "udp"
      [] connType = 3 -> "tcp6"
      [] connType = 4 -> "udp6"
      [] connType = 5 -> "unix"
      [] OTHER -> "unknown"

\* the ConnectionInfo built for one socket
ConnectionInfo(conn, pmap) ==
    LET \* fmt.Sprintf("%s:%d", ip, port)
        FormatAddr(addr) == <<addr.IP, ":", addr.Port>>
    IN
    [Family |-> IF To4(ParseIP(conn.Laddr.IP)) = "nil" THEN "IPv6" ELSE "IPv4",
     Type |-> getConnectionType(conn.Type),
     LocalAddr |-> FormatAddr(conn.Laddr),
     RemoteAddr |-> IF conn.Raddr.IP # "" /\ conn.Raddr.IP # "0.0.0.0" /\ conn.Raddr.IP # "::"
                    THEN FormatAddr(conn.Raddr) ELSE <<>>,
     Status |-> mapGopsutilStatus(conn.Status),
     PID |-> conn.Pid,
     Process |-> ProcessName(pmap, conn.Pid),
     User |-> "",
     CreateTime |-> 0]

RECURSIVE ConnectionsLoop(_, _, _)
\* "for _, conn := range connections { ... }": a socket that is not skipped is appended and
\* counted
ConnectionsLoop(cfg, conns, pmap) ==
    IF conns = <<>> THEN cfg
    ELSE LET conn == Head(conns)
             info == ConnectionInfo(conn, pmap)
             type == getConnectionType(conn.Type)
             added ==
                 [Connections |-> Append(cfg.Connections, info),
                  TotalCount |-> cfg.TotalCount + 1,
                  TCPCount |-> IF type = "tcp" THEN cfg.TCPCount + 1 ELSE cfg.TCPCount,
                  UDPCount |-> IF type # "tcp" /\ type = "udp"
                               THEN cfg.UDPCount + 1 ELSE cfg.UDPCount,
                  ListenCount |-> IF info.Status = St.LISTEN
                                  THEN cfg.ListenCount + 1 ELSE cfg.ListenCount,
                  EstablishedCount |-> IF info.Status # St.LISTEN /\ info.Status = St.ESTABLISHED
                                       THEN cfg.EstablishedCount + 1 ELSE cfg.EstablishedCount]
         IN ConnectionsLoop(IF HasLocalAddr(conn) THEN added ELSE cfg, Tail(conns), pmap)

ErrGetConnections ==
    Untyped(<<"failed", "to", "get", "connection", "s:", "open", "/proc/net/tcp:", "permission", "denied">>)

\* "connections, err := psnet.ConnectionsWithContext(ctx, "all"); if err != nil { return nil, ... }"
getActiveConnections_Enumerate(res) ==
    /\ connPc = "idle"
    /\ connSockets' = res
    /\ IF res.kind = "fail"
       THEN connPc' = "done" /\ connErr' = ErrGetConnections
       ELSE connPc' = "procs" /\ connErr' = NoErr
    /\ OthersUnchanged({"conn"})
    /\ UNCHANGED <<platform, connProcs, processMap, connectionConfig, connShown, connPort, connByPort>>

\* "processes, err := psproc.ProcessesWithContext(ctx)" and the loop that fills processMap
getActiveConnections_Processes(res) ==
    /\ connPc = "procs"
    /\ connProcs' = res
    \* "if err == nil { for _, proc := range processes { name, err := proc.NameWithContext(ctx);
    \*  if err == nil { processMap[proc.Pid] = name } } }"
    /\ processMap' =
           IF res.kind # "ok" THEN EmptyProcessMap
           ELSE [p \in {q \in ProcessPids : res.val[q] \notin {"absent", "error"}} |-> res.val[p]]
    /\ connPc' = "loop"
    /\ OthersUnchanged({"conn"})
    /\ UNCHANGED <<platform, connSockets, connectionConfig, connErr, connShown, connPort, connByPort>>

\* the loop over the sockets and "return connectionConfig, nil"
getActiveConnections_Collect ==
    /\ connPc = "loop"
    /\ connectionConfig' = 
           <<ConnectionsLoop([Connections |-> <<>>, TotalCount |-> 0, TCPCount |-> 0, UDPCount |-> 0,
                              ListenCount |-> 0, EstablishedCount |-> 0],
                             connSockets.val, processMap)>>
    /\ connErr' = NoErr
    /\ connPc' = "done"
    /\ OthersUnchanged({"conn"})
    /\ UNCHANGED <<platform, connSockets, connProcs, processMap, connShown, connPort, connByPort>>

\* ShowListeningPorts after its call of getActiveConnections has returned: the LISTEN filter,
\* sort.Slice by strconv.Atoi(strings.Split(LocalAddr, ":")[1]) and the rows of the table.
\* sort.Slice is not stable: any order that the less function accepts can come out.
ShowListeningPorts_Display ==
    /\ connPc = "done"
    /\ LET \* the pieces strings.Split(ip, ":") cuts an IP string into
           IPPieces == [ip \in {"0.0.0.0", "10.0.0.1", "192.168.1.1", "8.8.8.8", "1.1.1.1",
                                "fe80::1", "2001:db8::1"} |->
                           CASE ip = "fe80::1" -> <<"fe80", "", "1">>
                             [] ip = "2001:db8::1" -> <<"2001", "db8", "", "1">>
                             [] OTHER -> <<ip>>]
           \* %d of a port number
           PortText == [p \in {0, 22, 53, 80, 443} |->
                           CASE p = 0 -> "0" [] p = 22 -> "22" [] p = 53 -> "53"
                             [] p = 80 -> "80" [] p = 443 -> "443"]
           \* strings.Split(localAddr, ":") of "IP:port"
           Split(addr) == IPPieces[addr[1]] \o <<PortText[addr[3]]>>
           \* "n, _ := strconv.Atoi(s)": 0 when s is not a decimal number
           Atoi(s) == CASE s \in {"0", "22", "53", "80", "443"} ->
                              CHOOSE p \in DOMAIN PortText : PortText[p] = s
                        [] s = "1" -> 1
                        [] s = "2001" -> 2001
                        [] OTHER -> 0
           key(c) == Atoi(Split(c.LocalAddr)[2])
           listening == IF connErr # NoErr THEN <<>>
                        ELSE SelectSeq(connectionConfig[1].Connections, LAMBDA c : c.Status = St.LISTEN)
           n == Len(listening)
       IN \E perm \in {f \in [1..n -> 1..n] : \A i, j \in 1..n : f[i] = f[j] => i = j} :
             /\ \A i, j \in 1..n : i < j => ~(key(listening[perm[j]]) < key(listening[perm[i]]))
             /\ connShown' = [i \in 1..n |-> [port |-> Split(listening[perm[i]].LocalAddr)[2],
                                              conn |-> listening[perm[i]]]]
    /\ connPc' = "shown"
    /\ OthersUnchanged({"conn"})
    /\ UNCHANGED <<platform, connSockets, connProcs, processMap, connectionConfig, connErr,
                   connPort, connByPort>>

\* GetConnectionsByPort(port) after its call of getActiveConnections has returned.
\* An address is "" or "IP:port", so strings.HasSuffix(addr, ":port") compares its port.
GetConnectionsByPort_Filter(port) ==
    /\ connPc = "done"
    /\ connPort' = port
    /\ LET HasPortSuffix(addr) == addr # <<>> /\ addr[3] = port
           RECURSIVE Loop(_, _)
           Loop(portConnections, conns) ==
               IF conns = <<>> THEN portConnections
               ELSE LET conn == Head(conns)
                        local == IF HasPortSuffix(conn.LocalAddr)
                                 THEN Append(portConnections, conn) ELSE portConnections
                        remote == IF HasPortSuffix(conn.RemoteAddr) THEN Append(local, conn) ELSE local
                    IN Loop(remote, Tail(conns))
       IN connByPort' = IF connErr # NoErr THEN [conns |-> <<>>, err |-> connErr]
                        ELSE [conns |-> Loop(<<>>, connectionConfig[1].Connections), err |-> NoErr]
    /\ connPc' = "filtered"
    /\ OthersUnchanged({"conn"})
    /\ UNCHANGED <<platform, connSockets, connProcs, processMap, connectionConfig, connErr, connShown>>

ConnNext ==
    \/ connPc = "idle" /\ \E res \in SocketEnumerations : getActiveConnections_Enumerate(res)
    \/ connPc = "procs" /\ \E res \in ProcessEnumerations : getActiveConnections_Processes(res)
    \/ getActiveConnections_Collect
    \/ ShowListeningPorts_Display
    \/ \E port \in {22, 80, 443} : GetConnectionsByPort_Filter(port)

(***************************************************************************)
(* Ping output parsing: parseWindowsPingOutput / parseLinuxPingOutput.     *)
(* A line of output is a sequence of tokens: every digit and the decimal   *)
(* point is a token of its own, the literal parts of the phrases the       *)
(* regular expressions look for are one token each.  Durations are in      *)
(* microseconds.                                                           *)
(***************************************************************************)
Digits == {"0", "1", "2", "3", "4", "5", "6", "7", "8", "9"}

DigitValue == [d \in Digits |->
    CASE d = "0" -> 0 [] d = "1" -> 1 [] d = "2" -> 2 [] d = "3" -> 3 [] d = "4" -> 4
      [] d = "5" -> 5 [] d = "6" -> 6 [] d = "7" -> 7 [] d = "8" -> 8 [] d = "9" -> 9]

RECURSIVE AtoiDigits(_)
\* strconv.Atoi of a string of decimal digits (most significant first)
AtoiDigits(ds) ==
    IF ds = <<>> THEN 0
    ELSE 10 * AtoiDigits(SubSeq(ds, 1, Len(ds) - 1)) + DigitValue[ds[Len(ds)]]

\* a pattern element: a literal token, or a capture group over a character class
Lit(t) == [lit |-> TRUE, tok |-> t, class |-> {}]

Group(class) == [lit |-> FALSE, tok |-> "", class |-> class]

RECURSIVE RunEnd(_, _, _)
\* the position after the longest run of tokens of the class that starts at p
RunEnd(line, p, class) ==
    IF p <= Len(line) /\ line[p] \in class THEN RunEnd(line, p + 1, class) ELSE p

RECURSIVE MatchFrom(_, _, _, _)
\* the pattern matched against the line from position p on: [ok, caps]
MatchFrom(line, p, pat, caps) ==
    IF pat = <<>> THEN [ok |-> TRUE, caps |-> caps]
    ELSE IF Head(pat).lit
         THEN IF p <= Len(line) /\ line[p] = Head(pat).tok
              THEN MatchFrom(line, p + 1, Tail(pat), caps)
              ELSE [ok |-> FALSE, caps |-> <<>>]
         ELSE LET e == RunEnd(line, p, Head(pat).class)
              IN IF e > p
                 THEN MatchFrom(line, e, Tail(pat), Append(caps, SubSeq(line, p, e - 1)))
                 ELSE [ok |-> FALSE, caps |-> <<>>]

\* regexp.FindStringSubmatch: the capture groups of the leftmost match, <<>> when
\* the line has no match
FindStringSubmatch(pat, line) ==
    LET starts == {p \in 1..Len(line) : MatchFrom(line, p, pat, <<>>).ok}
    IN IF starts = {} THEN <<>>
       ELSE MatchFrom(line, CHOOSE p \in starts : \A q \in starts : p <= q, pat, <<>>).caps

\* strconv.ParseFloat(s, 64) succeeds: digits with at most one decimal point
ParseFloatOk(s) ==
    /\ \A i \in DOMAIN s : s[i] \in Digits \cup {"."}
    /\ Cardinality({i \in DOMAIN s : s[i] = "."}) <= 1
    /\ \E i \in DOMAIN s : s[i] \in Digits

\* "time.Duration(min*1000) * time.Microsecond" with min = ParseFloat(s): the float64
\* product truncated toward zero, in microseconds
MillisToDuration(s) ==
    LET \* the digits before / after the decimal point of the literal
        IntPart == SubSeq(s, 1, RunEnd(s, 1, Digits) - 1)
        FracPart == SubSeq(s, RunEnd(s, 1, Digits) + 1, Len(s))
        pad == [i \in 1..3 |-> IF i <= Len(FracPart) THEN FracPart[i] ELSE "0"]
        \* the value of the literal (at most three fractional digits) times 1000
        Thousandths == 1000 * AtoiDigits(IntPart) + AtoiDigits(pad)
        \* the literals of the vocabulary whose float64 value times 1000, in float64
        \* arithmetic, lies just below the integer that the decimal value times 1000 is
        \* (1.001 * 1000 = 1000.9999999999999, 2.01 * 1000 = 2009.9999999999998)
        Float64ProductBelow == {<<"1", ".", "0", "0", "1">>, <<"2", ".", "0", "1">>}
    IN IF s \in Float64ProductBelow THEN Thousandths - 1 ELSE Thousandths

\* the numeric fields of a PingResult
ZeroStats ==
    [PacketLoss |-> 0, MinRTT |-> 0, MaxRTT |-> 0, AvgRTT |-> 0, PacketsSent |-> 0, PacketsRecv |-> 0]

RECURSIVE WindowsLines(_, _)
\* "for _, line := range lines { ... }" of parseWindowsPingOutput
WindowsLines(st, lines) ==
    IF lines = <<>> THEN st
    ELSE LET line == Head(lines)
             \* `\((\d+)% loss\)`
             packetLossRegex == <<Lit("("), Group(Digits), Lit("% loss)")>>
             \* `Minimum = (\d+)ms, Maximum = (\d+)ms, Average = (\d+)ms`
             rttRegex ==
                 <<Lit("Minimum = "), Group(Digits), Lit("ms, Maximum = "), Group(Digits),
                   Lit("ms, Average = "), Group(Digits), Lit("ms")>>
             loss == FindStringSubmatch(packetLossRegex, line)
             rtt == FindStringSubmatch(rttRegex, line)
             next ==
                 [st EXCEPT
                     !.PacketLoss = IF Len(loss) > 0 THEN AtoiDigits(loss[1]) ELSE @,
                     !.MinRTT = IF Len(rtt) > 2 THEN AtoiDigits(rtt[1]) * 1000 ELSE @,
                     !.MaxRTT = IF Len(rtt) > 2 THEN AtoiDigits(rtt[2]) * 1000 ELSE @,
                     !.AvgRTT = IF Len(rtt) > 2 THEN AtoiDigits(rtt[3]) * 1000 ELSE @]
         IN WindowsLines(next, Tail(lines))

RECURSIVE LinuxLines(_, _)
\* "for _, line := range lines { ... }" of parseLinuxPingOutput
LinuxLines(st, lines) ==
    IF lines = <<>> THEN st
    ELSE LET line == Head(lines)
             DigitsOrDot == Digits \cup {"."}
             \* `(\d+)% packet loss`
             packetLossRegex == <<Group(Digits), Lit("% packet loss")>>
             \* `rtt min/avg/max/mdev = ([\d.]+)/([\d.]+)/([\d.]+)/([\d.]+) ms`
             rttRegex ==
                 <<Lit("rtt min/avg/max/mdev = "), Group(DigitsOrDot), Lit("/"),
                   Group(DigitsOrDot), Lit("/"), Group(DigitsOrDot), Lit("/"),
                   Group(DigitsOrDot), Lit(" ms")>>
             \* `(\d+) packets transmitted, (\d+) received`
             packetsRegex ==
                 <<Group(Digits), Lit(" packets transmitted, "), Group(Digits), Lit(" received")>>
             loss == FindStringSubmatch(packetLossRegex, line)
             rtt == FindStringSubmatch(rttRegex, line)
             pk == FindStringSubmatch(packetsRegex, line)
             next ==
                 [st EXCEPT
                     !.PacketLoss = IF Len(loss) > 0 THEN AtoiDigits(loss[1]) ELSE @,
                     !.MinRTT = IF Len(rtt) > 3 /\ ParseFloatOk(rtt[1])
                                THEN MillisToDuration(rtt[1]) ELSE @,
                     !.AvgRTT = IF Len(rtt) > 3 /\ ParseFloatOk(rtt[2])
                                THEN MillisToDuration(rtt[2]) ELSE @,
                     !.MaxRTT = IF Len(rtt) > 3 /\ ParseFloatOk(rtt[3])
                                THEN MillisToDuration(rtt[3]) ELSE @,
                     !.PacketsSent = IF Len(pk) > 1 THEN AtoiDigits(pk[1]) ELSE @,
                     !.PacketsRecv = IF Len(pk) > 1 THEN AtoiDigits(pk[2]) ELSE @]
         IN LinuxLines(next, Tail(lines))

\* parseWindowsPingOutput: the numeric fields it assigns to a result whose
\* PacketsSent is sent0 (it returns a nil error always)
parseWindowsPingOutput(sent0, output) ==
    LET st == WindowsLines(ZeroStats, output)
        packetsSent == IF sent0 = 0 THEN 4 ELSE sent0
        \* int(x / 100) for an integral x: the conversion truncates toward zero
        TruncPercent(x) == IF x >= 0 THEN x \div 100 ELSE 0 - ((0 - x) \div 100)
    IN [st EXCEPT !.PacketsSent = packetsSent,
                  !.PacketsRecv = TruncPercent(packetsSent * (100 - st.PacketLoss))]

\* parseLinuxPingOutput: the numeric fields it assigns (it returns a nil error always)
parseLinuxPingOutput(output) == LinuxLines(ZeroStats, output)

\* "4 packets transmitted, 4 received, 0% packet loss, time 3005ms"
StatsLine(S, R, L) ==
    S \o <<" packets transmitted, ">> \o R \o <<" received", ", ">> \o L
      \o <<"% packet loss", ", time 3005ms">>

\* "rtt min/avg/max/mdev = 1.0/2.0/3.0/0.5 ms"
RttLine(a, b, c, d) ==
    <<"rtt min/avg/max/mdev = ">> \o a \o <<"/">> \o b \o <<"/">> \o c \o <<"/">> \o d \o <<" ms">>

\* "    Packets: Sent = 4, Received = 4, Lost = 0 (0% loss),"
WindowsStatsLine(L) == <<"Packets: Sent = 4, Received = 4, Lost = 0 ", "(">> \o L \o <<"% loss)", ",">>

\* lines of a transcript that hold no statistics
PingLine ==
    [Header |-> <<"PING 8.8.8.8 (8.8.8.8) 56(84) bytes of data.">>,
     Reply |-> <<"6", "4", " bytes from 8.8.8.8: icmp_seq=1 ttl=117 time=", "1", ".", "0", " ms">>,
     WindowsHeader |-> <<"Pinging 8.8.8.8 with 32 bytes of data:">>,
     WindowsReply |-> <<"Reply from 8.8.8.8: bytes=", "3", "2", " time=", "1", "ms TTL=",
                        "1", "1", "7">>]

\* the (transcript, numbers) pairs the parsers are applied to; given holds the numbers a
\* transcript was written with, shape "none" for a transcript without statistics
PingInputs ==
    LET CountLiterals == {<<"4">>, <<"1", "0">>}
        RecvLiterals == {<<"4">>, <<"3">>, <<"0">>}
        LossLiterals ==
            {<<"0">>, <<"2", "5">>, <<"1", "0", "0">>, <<"3", "3", ".", "3", "3", "3", "3">>}
        RttLiterals ==
            {<<"1", ".", "0">>, <<"2", ".", "0">>, <<"3", ".", "0">>, <<"0", ".", "5">>,
             <<"1", ".", "0", "0", "1">>, <<"2", ".", "0", "1">>}
        WindowsLossLiterals == {<<"0">>, <<"2", "5">>, <<"1", "0", "0">>}
        WindowsRttLiterals == {<<"1">>, <<"2", "0">>}
        \* "    Minimum = 1ms, Maximum = 20ms, Average = 1ms"
        WindowsRttLine(mn, mx, av) ==
            <<"Minimum = ">> \o mn \o <<"ms, Maximum = ">> \o mx \o <<"ms, Average = ">>
              \o av \o <<"ms">>
        \* transcripts without any statistics phrase
        PlainTranscripts ==
            {<<>>, <<PingLine.Header>>, <<PingLine.Header, PingLine.Reply>>,
             <<PingLine.WindowsHeader>>, <<PingLine.WindowsHeader, PingLine.WindowsReply>>,
             <<<<"ping: unknown host">>>>}
    IN {[output |-> t, given |-> [shape |-> "none"]] : t \in PlainTranscripts}
       \cup {[output |-> <<PingLine.Header, PingLine.Reply, StatsLine(S, R, L),
                           RttLine(a, b, c, <<"0", ".", "5">>)>>,
               given |-> [shape |-> "posix", S |-> S, R |-> R, L |-> L, a |-> a, b |-> b, c |-> c]] :
                 S \in CountLiterals, R \in RecvLiterals, L \in LossLiterals,
                 a \in RttLiterals, b \in RttLiterals, c \in RttLiterals}
       \cup {[output |-> <<PingLine.WindowsHeader, PingLine.WindowsReply, WindowsStatsLine(L),
                           WindowsRttLine(mn, mx, av)>>,
               given |-> [shape |-> "windows", L |-> L, mn |-> mn, mx |-> mx, av |-> av]] :
                 L \in WindowsLossLiterals, mn \in WindowsRttLiterals,
                 mx \in WindowsRttLiterals, av \in WindowsRttLiterals}
       \cup {[output |-> <<PingLine.WindowsHeader, WindowsStatsLine(L)>>,
               given |-> [shape |-> "windows-loss", L |-> L]] : L \in WindowsLossLiterals}

\* PingHost on Windows: "err = parseWindowsPingOutput(result, string(output))" on
\* the result it has just built (PacketsSent zero)
parseWindowsPingOutput_Run ==
    /\ ppPc = "input"
    /\ IsWindows
    /\ ppStats' = parseWindowsPingOutput(ZeroStats.PacketsSent, ppOutput)
    /\ ppMatcher' = "windows"
    /\ ppPc' = "parsed"
    /\ OthersUnchanged({"pp"})
    /\ UNCHANGED <<platform, ppOutput, ppGiven>>

\* PingHost elsewhere: "err = parseLinuxPingOutput(result, string(output))"
parseLinuxPingOutput_Run ==
    /\ ppPc = "input"
    /\ ~IsWindows
    /\ ppStats' = parseLinuxPingOutput(ppOutput)
    /\ ppMatcher' = "linux"
    /\ ppPc' = "parsed"
    /\ OthersUnchanged({"pp"})
    /\ UNCHANGED <<platform, ppOutput, ppGiven>>

PpNext == parseLinuxPingOutput_Run \/ parseWindowsPingOutput_Run

(***************************************************************************)
(* PingHost / QuickPing / PingMultipleHosts.  PingHost runs the ping       *)
(* command through context.WithTimeout + exec.CommandContext + cmd.Output, *)
(* the process runner above.                                               *)
(***************************************************************************)
PingSuccessNeedsReply(err, stats) == err = NoErr /\ stats.PacketLoss < 100

\* PingResult.Success: false in the "if err != nil" branch after cmd.Output, true
\* otherwise (both parsers return nil, so it is never reset)
PingSuccess(err, stats) == err = NoErr

AppendResultIfSuccess(results, result) ==
    IF result[1].Success THEN Append(results, result) ELSE results

\* "results = append(results, result)"
AppendResult(results, result) == Append(results, result)

NoPingReturn == [result |-> <<>>, err |-> NoErr]

\* a call of PingHost(config)
PingHost_Call(host, count, timeout) ==
    /\ pingPc = "idle"
    /\ pingOp' = "PingHost"
    /\ pingConfig' = [Host |-> host, Count |-> count, Timeout |-> timeout, Size |-> 32]
    /\ pingPc' = "start"
    /\ OthersUnchanged({"ping"})
    /\ UNCHANGED <<platform, pingHosts, pingIndex, pingReturn, pingResults, pingEvents, pingOverlap,
                   pingStep, pingReport>>

\* a call of PingMultipleHosts(hosts): "var results []*PingResult"
PingMultipleHosts_Call(hosts) ==
    /\ pingPc = "idle"
    /\ pingOp' = "PingMultipleHosts"
    /\ pingHosts' = hosts
    /\ pingIndex' = 1
    /\ pingResults' = <<>>
    /\ pingPc' = "loop"
    /\ OthersUnchanged({"ping"})
    /\ UNCHANGED <<platform, pingConfig, pingReturn, pingEvents, pingOverlap,
                   pingStep, pingReport>>

\* "for i, host := range hosts { result, err := QuickPing(host)": the loop head,
\* up to the call of PingHost; after the last host "return results, nil"
PingMultipleHosts_Loop ==
    /\ pingPc = "loop"
    /\ IF pingIndex <= Len(pingHosts)
       THEN \* QuickPing: DefaultPingConfig(host) with Count = 3 and Timeout = 5 s (2 time units)
            /\ pingConfig' = [Host |-> pingHosts[pingIndex], Count |-> 3, Timeout |-> 2, Size |-> 32]
            /\ pingPc' = "start"
       ELSE /\ pingPc' = "done"
            /\ UNCHANGED pingConfig
    /\ OthersUnchanged({"ping"})
    /\ UNCHANGED <<platform, pingOp, pingHosts, pingIndex, pingReturn, pingResults, pingEvents, pingOverlap,
                   pingStep, pingReport>>

\* PingHost: context.WithTimeout(config.Timeout), exec.CommandContext, and the
\* cmd.Start inside cmd.Output
PingHost_Start(startFails, runFor, exitCode) ==
    /\ pingPc = "start"
    /\ StartChild(pingConfig.Timeout, startFails, runFor, exitCode)
    /\ pingEvents' = Append(pingEvents, [ev |-> "start", index |-> pingIndex])
    /\ pingOverlap' = (pingOverlap \/ child.state = "running")
    /\ pingPc' = "output"
    /\ OthersUnchanged({"ping", "cmd"})
    /\ UNCHANGED <<platform, pingOp, pingHosts, pingIndex, pingConfig, pingReturn, pingResults,
                   pingStep, pingReport>>

\* PingHost after cmd.Output has returned: build the result, "return result, nil";
\* in PingMultipleHosts, QuickPing returns it and the loop appends it (output is
\* what the child has written: nothing when no child was started)
PingHost_Return(output) ==
    /\ pingPc = "output"
    /\ cmdPc = "returned"
    /\ child = NoChild => output = <<>>
    /\ LET stats == IF cmdErr # NoErr THEN ZeroStats
                    ELSE IF IsWindows THEN parseWindowsPingOutput(ZeroStats.PacketsSent, output)
                    ELSE parseLinuxPingOutput(output)
           \* the *PingResult built from what cmd.Output returned
           result == <<[Host |-> pingConfig.Host,
                        Success |-> PingSuccess(cmdErr, stats),
                        PacketLoss |-> stats.PacketLoss,
                        MinRTT |-> stats.MinRTT,
                        MaxRTT |-> stats.MaxRTT,
                        AvgRTT |-> stats.AvgRTT,
                        PacketsSent |-> stats.PacketsSent,
                        PacketsRecv |-> stats.PacketsRecv,
                        RawOutput |-> output,
                        Error |-> cmdErr.msg]>>
       IN /\ pingReturn' = [result |-> result, err |-> NoErr]
          /\ IF pingOp = "PingMultipleHosts"
             THEN pingResults' = AppendResult(pingResults, result) /\ pingPc' = "sleep"
             ELSE UNCHANGED pingResults /\ pingPc' = "done"
    /\ pingEvents' = Append(pingEvents, [ev |-> "end", index |-> pingIndex])
    /\ OthersUnchanged({"ping"})
    /\ UNCHANGED <<platform, pingOp, pingHosts, pingIndex, pingConfig, pingOverlap,
                   pingStep, pingReport>>

\* "time.Sleep(500 * time.Millisecond)" and the step to the next host
PingMultipleHosts_Sleep ==
    /\ pingPc = "sleep"
    /\ pingIndex' = pingIndex + 1
    /\ pingPc' = "loop"
    /\ OthersUnchanged({"ping"})
    /\ UNCHANGED <<platform, pingOp, pingHosts, pingConfig, pingReturn, pingResults, pingEvents, pingOverlap,
                   pingStep, pingReport>>

\* one step of TestConnectivity (local, gateway, DNS server, internet), up to its call
\* "QuickPing(host)": DefaultPingConfig(host) with Count = 3 and Timeout = 5 s (2 time units)
TestConnectivity_Step(step, host) ==
    /\ pingPc = "idle"
    /\ pingOp' = "TestConnectivity"
    /\ pingStep' = step
    /\ pingConfig' = [Host |-> host, Count |-> 3, Timeout |-> 2, Size |-> 32]
    /\ pingPc' = "start"
    /\ OthersUnchanged({"ping"})
    /\ UNCHANGED <<platform, pingHosts, pingIndex, pingReturn, pingResults, pingEvents, pingOverlap,
                   pingReport>>

\* the step after QuickPing has returned: "if err != nil { ... failed } else { ... OK }"
TestConnectivity_Report ==
    /\ pingPc = "done"
    /\ pingOp = "TestConnectivity"
    /\ pingReport' = IF pingReturn.err # NoErr THEN "failed" ELSE "OK"
    /\ pingPc' = "reported"
    /\ OthersUnchanged({"ping"})
    /\ UNCHANGED <<platform, pingOp, pingHosts, pingIndex, pingConfig, pingReturn, pingResults,
                   pingEvents, pingOverlap, pingStep>>

PingNext ==
    \/ pingPc = "idle" /\ \E h \in {"8.8.8.8", "1.1.1.1"}, c \in {1, 4}, t \in 0..MaxTime :
                             PingHost_Call(h, c, t)
    \/ pingPc = "idle" /\ \E hosts \in SeqsUpTo({"8.8.8.8", "1.1.1.1"}, MaxRecs) :
                             PingMultipleHosts_Call(hosts)
    \* steps 1 and 4; steps 2 and 3 make the same call with a host the gateway and DNS
    \* acquisitions have found
    \/ pingPc = "idle" /\ \E s \in {<<"local", "127.0.0.1">>, <<"internet", "8.8.8.8">>} :
                             TestConnectivity_Step(s[1], s[2])
    \/ TestConnectivity_Report
    \/ PingMultipleHosts_Loop
    \/ pingPc = "start" /\ \E f \in {"no", "not found", "permission denied"}, r \in 0..MaxTime, e \in {0, 1} : PingHost_Start(f, r, e)
    \/ pingPc = "output" /\ Tick
    \/ pingPc = "output" /\ ChildExits
    \/ pingPc = "output" /\ DeadlineElapses
    \/ pingPc = "output" /\ CommandWithTimeout_Return
    \* what the ping child can have written to its standard output
    \/ pingPc = "output" /\
         \E out \in {<<>>,
                     <<PingLine.Header, StatsLine(<<"3">>, <<"3">>, <<"0">>),
                       RttLine(<<"1", ".", "0">>, <<"2", ".", "0">>, <<"3", ".", "0">>,
                               <<"0", ".", "5">>)>>,
                     <<PingLine.Header, StatsLine(<<"3">>, <<"0">>, <<"1", "0", "0">>)>>,
                     <<PingLine.WindowsHeader, PingLine.WindowsReply, WindowsStatsLine(<<"2", "5">>)>>} :
            PingHost_Return(out)
    \/ PingMultipleHosts_Sleep

(***************************************************************************)
(* GetPublicIP: the endpoint loop.  The repository holds two versions,     *)
(* which differ in the error values only: "typed" wraps its errors in      *)
(* utils.NetworkError, "plain" returns fmt.Errorf errors.  A response body *)
(* is a sequence of tokens, white space being tokens of their own.         *)
(***************************************************************************)
PublicIPEndpoints ==
    <<"https://api.ipify.org", "https://ifconfig.me/ip", "https://icanhazip.com",
      "https://ident.me", "https://ipecho.net/plain">>

\* utils.HTTPTimeout (5 s) and utils.PublicIPTimout (10 s), in time units
HTTPTimeout == 1

PublicIPTimout == 2

WhiteSpace == {" ", "\n", "\t", "\r"}

TrimSpaceNone(s) == s

\* strings.TrimSpace
TrimSpace(s) ==
    LET RECURSIVE TrimLeft(_)
        TrimLeft(t) == IF t # <<>> /\ Head(t) \in WhiteSpace THEN TrimLeft(Tail(t)) ELSE t
        RECURSIVE TrimRight(_)
        TrimRight(t) ==
            IF t # <<>> /\ t[Len(t)] \in WhiteSpace
            THEN TrimRight(SubSeq(t, 1, Len(t) - 1)) ELSE t
    IN TrimRight(TrimLeft(s))

\* what one request can come to: client.Do fails at once ("error") or after
\* client.Timeout ("timeout"); a response with a status; a body that cannot be
\* read; a body
Responses ==
    {[kind |-> "error", status |-> 0, body |-> <<>>],
     [kind |-> "timeout", status |-> 0, body |-> <<>>],
     [kind |-> "response", status |-> 500, body |-> <<>>],
     [kind |-> "readerr", status |-> 200, body |-> <<>>]}
    \cup {[kind |-> "response", status |-> 200, body |-> b] :
             b \in {<<"203.0.113.7", "\n">>, <<" ", "2001:db8::1">>, <<"\n">>, <<"<html>", "\n">>,
                    <<"8.8.8.8", " ", "1.1.1.1">>}}

ErrPublicIP == <<"Failed", "to", "retrieve", "public", "IP", "address">>

\* utils.WrapError(err, message, errType).Error(): "message: err" or "message"
WrapError(err, message, errType) ==
    [typed |-> TRUE, Type |-> errType,
     msg |-> IF err = NoErr THEN message ELSE message \o <<":">> \o err.msg]

\* a call of GetPublicIP: context.WithTimeout, http.Client, "var lastErr error"
GetPublicIP_Call(impl) ==
    /\ ipPc = "idle"
    /\ ipImpl' = impl
    /\ ipIndex' = 1
    /\ ipPc' = "loop"
    /\ OthersUnchanged({"ip"})
    /\ UNCHANGED <<platform, ipElapsed, ipLastErr, ipAttempts, ipReturn>>

\* loop head: "case <-ctx.Done(): return "", ..."
GetPublicIP_CtxDone ==
    /\ ipPc = "loop"
    /\ ipIndex <= Len(PublicIPEndpoints)
    /\ ipElapsed >= PublicIPTimout
    /\ ipReturn' = [ip |-> <<>>,
                    err |-> IF ipImpl = "typed" THEN WrapError(NoErr, ErrPublicIP, "Timeout")
                            ELSE Untyped(<<"timeout", "while", "getting", "public", "IP">>)]
    /\ ipPc' = "done"
    /\ OthersUnchanged({"ip"})
    /\ UNCHANGED <<platform, ipImpl, ipIndex, ipElapsed, ipLastErr, ipAttempts>>

\* one iteration of the loop past the ctx.Done() test: the request to the
\* endpoint and what is made of the response
GetPublicIP_Attempt(resp) ==
    /\ ipPc = "loop"
    /\ ipIndex <= Len(PublicIPEndpoints)
    /\ ipElapsed < PublicIPTimout
    /\ ipAttempts' = Append(ipAttempts, [endpoint |-> PublicIPEndpoints[ipIndex], resp |-> resp])
    /\ ipElapsed' = IF resp.kind = "timeout" THEN ipElapsed + HTTPTimeout ELSE ipElapsed
    /\ LET publicIP == TrimSpace(resp.body)
           \* net.ParseIP of a string given as tokens: an address is one token
           parsed == IF Len(publicIP) = 1 THEN ParseIP(publicIP[1]) ELSE "nil"
           \* the lastErr an unsuccessful attempt leaves (the "typed" version only)
           AttemptError ==
               CASE resp.kind \in {"error", "timeout"} ->
                      WrapError(Untyped(<<"Get", "connection", "refused">>),
                                <<"Request", "failed">>, "Network")
                 [] resp.kind = "readerr" ->
                      WrapError(Untyped(<<"unexpected", "EOF">>),
                                <<"Failed", "to", "read", "response">>, "Parse")
                 [] resp.kind = "response" /\ resp.status # 200 ->
                      WrapError(NoErr, <<"HTTP", "500">>, "Network")
                 [] OTHER -> WrapError(NoErr, <<"Invalid", "IP", "address", "received">>, "Parse")
       IN
       IF resp.kind = "response" /\ resp.status = 200 /\ parsed # "nil"
       THEN /\ ipReturn' = [ip |-> publicIP, err |-> NoErr]
            /\ ipPc' = "done"
            /\ UNCHANGED <<ipIndex, ipLastErr>>
       ELSE /\ ipLastErr' = IF ipImpl = "typed" THEN AttemptError ELSE ipLastErr
            /\ ipIndex' = ipIndex + 1
            /\ UNCHANGED <<ipReturn, ipPc>>
    /\ OthersUnchanged({"ip"})
    /\ UNCHANGED <<platform, ipImpl>>

\* after the loop: all endpoints failed
GetPublicIP_Exhausted ==
    /\ ipPc = "loop"
    /\ ipIndex > Len(PublicIPEndpoints)
    /\ ipReturn' = [ip |-> <<>>,
                    err |-> IF ipImpl = "typed" THEN WrapError(ipLastErr, ErrPublicIP, "Network")
                            ELSE Untyped(<<"failed", "to", "get", "public", "IP", "from", "all", "endpoints">>)]
    /\ ipPc' = "done"
    /\ OthersUnchanged({"ip"})
    /\ UNCHANGED <<platform, ipImpl, ipIndex, ipElapsed, ipLastErr, ipAttempts>>

IpNext ==
    \/ \E v \in {"typed", "plain"} : GetPublicIP_Call(v)
    \/ GetPublicIP_CtxDone
    \/ ipPc = "loop" /\ \E resp \in Responses : GetPublicIP_Attempt(resp)
    \/ GetPublicIP_Exhausted

(***************************************************************************)
(* Error classification and retry policy (utils/errors.go).  A message is  *)
(* a sequence of tokens that are pieces of the string; strings.Contains is *)
(* Contains on the tokens.  A 64-bit integer (int, time.Duration) is the   *)
(* sequence of its eight bytes, least significant first, in two's          *)
(* complement.                                                             *)
(***************************************************************************)
\* utils.IsPermissionError without the type assertion: the text decides for every error
IsPermissionErrorByText(err) ==
    \/ Contains(err.msg, <<"permission", "denied">>)
    \/ Contains(err.msg, <<"access", "denied">>)
    \/ Contains(err.msg, <<"not", "permitted">>)

\* utils.IsPermissionError
IsPermissionError(err) ==
    IF err.typed THEN err.Type = "Permission"
    ELSE \/ Contains(err.msg, <<"permission", "denied">>)
         \/ Contains(err.msg, <<"access", "denied">>)
         \/ Contains(err.msg, <<"not", "permitted">>)

\* utils.IsNetworkError
IsNetworkError(err) ==
    IF err.typed THEN err.Type = "Network"
    ELSE \/ Contains(err.msg, <<"network">>)
         \/ Contains(err.msg, <<"connection">>)
         \/ Contains(err.msg, <<"unreachable">>)

\* utils.GetUserFriendlyMessage
GetUserFriendlyMessage(err) ==
    LET MsgTryAgain == "Please try again or check your network configuration"
        ErrPermissionDenied == "Permission denied - some features may require elevated privileges"
        ErrNetworkUnavailable == "Network is not available"
        MsgFeatureUnavailable == "This feature is not available on your system"
        ErrInvalidInput == "Invalid input provided"
        TimedOut == "Please try again or check your network configuration (Operation timed out)"
    IN IF err.typed
       THEN CASE err.Type = "Timeout" -> TimedOut
              [] err.Type = "Permission" -> ErrPermissionDenied
              [] err.Type = "Network" -> ErrNetworkUnavailable
              [] err.Type = "Command" -> MsgFeatureUnavailable
              [] err.Type = "Parse" -> "Data parsing error - please try again"
              [] err.Type = "Validation" -> ErrInvalidInput
              [] OTHER -> MsgTryAgain
       ELSE IF IsTimeoutError(err) THEN TimedOut
       ELSE IF IsPermissionError(err) THEN ErrPermissionDenied
       ELSE IF IsNetworkError(err) THEN ErrNetworkUnavailable
       ELSE IF Contains(err.msg, <<"no such host">>)
            THEN "Host not found - check the hostname or DNS settings"
       ELSE IF Contains(err.msg, <<"connection", "refused">>)
            THEN "Connection refused - the service may not be running"
       ELSE IF Contains(err.msg, <<"network", "unreachable">>)
            THEN "Network unreachable - check your network connection"
       ELSE MsgTryAgain

\* utils.ShouldRetry
ShouldRetry(err) ==
    IF IsTimeoutError(err) THEN TRUE
    ELSE IF IsNetworkError(err) THEN TRUE
    ELSE IF IsPermissionError(err) THEN FALSE
    ELSE FALSE

\* the int64 0, as its eight bytes, least significant first
Zero64 == <<0, 0, 0, 0, 0, 0, 0, 0>>

\* the int64 of a natural number below 2^31
Int64Of(n) ==
    <<n % 256, (n \div 256) % 256, (n \div 65536) % 256, (n \div 16777216) % 256, 0, 0, 0, 0>>

\* a + b in int64 (wraps around)
Add64(a, b) ==
    LET RECURSIVE AddCarry(_, _)
        \* bytes i..8 of a + b + carry
        AddCarry(i, carry) ==
            IF i > 8 THEN <<>>
            ELSE <<(a[i] + b[i] + carry) % 256>> \o AddCarry(i + 1, (a[i] + b[i] + carry) \div 256)
    IN AddCarry(1, 0)

\* a * b in int64 (wraps around)
Mul64(a, b) ==
    LET RECURSIVE ColumnFrom(_, _)
        \* the sum of the byte products a[j] * b[k + 1 - j], j = 1..i: those that fall on byte k
        ColumnFrom(k, i) == IF i = 0 THEN 0 ELSE ColumnFrom(k, i - 1) + a[i] * b[k + 1 - i]
        RECURSIVE MulCarry(_, _)
        \* bytes k..8 of a * b, carry coming from the bytes below
        MulCarry(k, carry) ==
            IF k > 8 THEN <<>>
            ELSE <<(ColumnFrom(k, k) + carry) % 256>>
                 \o MulCarry(k + 1, (ColumnFrom(k, k) + carry) \div 256)
    IN MulCarry(1, 0)

IsNegative64(a) == a[8] >= 128

\* a < b in int64
Less64(a, b) ==
    LET RECURSIVE LessFrom(_)
        \* a < b as unsigned numbers, looking at bytes i, i-1, ..., 1
        LessFrom(i) ==
            IF i = 0 THEN FALSE
            ELSE IF a[i] # b[i] THEN a[i] < b[i]
            ELSE LessFrom(i - 1)
    IN IF IsNegative64(a) # IsNegative64(b) THEN IsNegative64(a) ELSE LessFrom(8)

\* utils.RetryDelay = 1 * time.Second, in nanoseconds
RetryDelay == Int64Of(1000000000)

\* utils.GetRetryDelay
GetRetryDelay(attempt) ==
    IF ~Less64(Zero64, attempt) THEN RetryDelay
    ELSE LET delay == Mul64(attempt, RetryDelay)
             \* 10 * time.Second
             TenSeconds == Mul64(Int64Of(10), Int64Of(1000000000))
         IN IF Less64(TenSeconds, delay) THEN TenSeconds ELSE delay

\* ---- the errors and attempt counts the functions are applied to
RetryErrors ==
    LET ErrorTypes == {"Network", "Timeout", "Permission", "Command", "Parse", "Validation", "Unknown"}
        MessageTokens ==
            {"timeout", "deadline", "exceeded", "permission", "denied", "access", "not",
             "permitted", "network", "connection", "unreachable", "refused", "s:", "no such host"}
        \* Error() of a *NetworkError: its Message, then ": " and the wrapped cause
        TypedMessages ==
            {<<"failed">>, <<"failed", ":", "timeout">>, <<"failed", ":", "permission", "denied">>,
             <<"failed", ":", "connection", "refused">>}
    IN {[typed |-> TRUE, Type |-> t, msg |-> msg] : t \in ErrorTypes, msg \in TypedMessages}
       \cup {Untyped(m) : m \in SeqsUpTo(MessageTokens, MaxWords)}
       \cup {ErrGetConnections, ErrDeadline, ErrNotFound, ErrPermission}

\* the attempt counts: those written in decimal below, math.MaxInt64, and their negations
Attempts ==
    LET AttemptDigits ==
            {<<"0">>, <<"1">>, <<"2">>, <<"3">>, <<"9">>, <<"1", "0">>, <<"1", "1">>, <<"1", "0", "0", "0">>,
             <<"9", "2", "2", "3", "3", "7", "2", "0", "3", "6">>,
             <<"9", "2", "2", "3", "3", "7", "2", "0", "3", "7">>,
             <<"1", "8", "4", "4", "6", "7", "4", "4", "0", "7", "4">>}
        RECURSIVE Int64OfDigits(_)
        \* the int64 a string of decimal digits denotes
        Int64OfDigits(ds) ==
            IF ds = <<>> THEN Zero64
            ELSE Add64(Mul64(Int64OfDigits(SubSeq(ds, 1, Len(ds) - 1)), Int64Of(10)),
                       Int64Of(DigitValue[ds[Len(ds)]]))
        MaxInt64 == <<255, 255, 255, 255, 255, 255, 255, 127>>
        \* -a in int64
        Neg64(a) ==
            Add64(<<255 - a[1], 255 - a[2], 255 - a[3], 255 - a[4],
                    255 - a[5], 255 - a[6], 255 - a[7], 255 - a[8]>>, Int64Of(1))
        positive == {Int64OfDigits(ds) : ds \in AttemptDigits} \cup {MaxInt64}
    IN positive \cup {Neg64(a) : a \in positive}

\* a call of ShouldRetry(err)
ShouldRetry_Call(err) ==
    /\ ryPc = "idle"
    /\ ryErr' = err
    /\ ryShould' = ShouldRetry(err)
    /\ ryPc' = "ShouldRetry"
    /\ OthersUnchanged({"ry"})
    /\ UNCHANGED <<platform, ryAttempt, ryDelay, ryKinds, ryMessage>>

\* a call of GetRetryDelay(attempt)
GetRetryDelay_Call(attempt) ==
    /\ ryPc = "idle"
    /\ ryAttempt' = attempt
    /\ ryDelay' = GetRetryDelay(attempt)
    /\ ryPc' = "GetRetryDelay"
    /\ OthersUnchanged({"ry"})
    /\ UNCHANGED <<platform, ryErr, ryShould, ryKinds, ryMessage>>

\* the three kind tests applied to one error
ErrorKind_Call(err) ==
    /\ ryPc = "idle"
    /\ ryErr' = err
    /\ ryKinds' = [timeout |-> IsTimeoutError(err), permission |-> IsPermissionError(err),
                   network |-> IsNetworkError(err)]
    /\ ryPc' = "ErrorKind"
    /\ OthersUnchanged({"ry"})
    /\ UNCHANGED <<platform, ryShould, ryAttempt, ryDelay, ryMessage>>

\* a call of GetUserFriendlyMessage(err)
GetUserFriendlyMessage_Call(err) ==
    /\ ryPc = "idle"
    /\ ryErr' = err
    /\ ryMessage' = GetUserFriendlyMessage(err)
    /\ ryPc' = "GetUserFriendlyMessage"
    /\ OthersUnchanged({"ry"})
    /\ UNCHANGED <<platform, ryShould, ryAttempt, ryDelay, ryKinds>>

RyNext ==
    \/ ryPc = "idle" /\ \E err \in RetryErrors : ShouldRetry_Call(err)
    \/ ryPc = "idle" /\ \E err \in RetryErrors : ErrorKind_Call(err)
    \/ ryPc = "idle" /\ \E err \in RetryErrors : GetUserFriendlyMessage_Call(err)
    \/ ryPc = "idle" /\ \E attempt \in Attempts : GetRetryDelay_Call(attempt)

(***************************************************************************)
(* Routing table adapter (utils/helpers.go).  A destination is a string;   *)
(* its tokens are what strings.Contains(destination, "/") looks at.  The   *)
(* JSON records of "ip -j route" and of PowerShell are [dst, gateway, dev] *)
(* (DestinationPrefix, NextHop, InterfaceAlias on Windows); Metric and     *)
(* Protocol are carried through unread and are left out.                   *)
(***************************************************************************)
\* the RouteInfo literal of a parser and its "Determine route type" block
RouteInfoOf(source, destination, gateway, interfaceName) ==
    LET Tokens == [d \in {"default", "0.0.0.0/0", "::/0", "10.0.0.0/8", "10.0.0.1"} |->
                      CASE d = "default" -> <<"default">>
                        [] d = "0.0.0.0/0" -> <<"0.0.0.0", "/", "0">>
                        [] d = "::/0" -> <<"::", "/", "0">>
                        [] d = "10.0.0.0/8" -> <<"10.0.0.0", "/", "8">>
                        [] d = "10.0.0.1" -> <<"10.0.0.1">>]
        IsDefault == IF source = "PowerShell" THEN destination \in {"0.0.0.0/0", "::/0"}
                     ELSE destination \in {"default", "0.0.0.0/0", "::/0"}
        routeType == IF Contains(Tokens[destination], <<"/">>)
                     THEN IF IsDefault THEN "Default" ELSE "Network"
                     ELSE "Host"
    IN [Destination |-> destination, Gateway |-> gateway, Interface |-> interfaceName,
        Source |-> source, Type |-> routeType]

\* GetDefaultRoutes, line 462: it starts with getWindowsRoutes on every platform
GetDefaultRoutes_Call ==
    /\ routesPc = "idle"
    /\ routesPc' = "win"
    /\ OthersUnchanged({"routes"})
    /\ UNCHANGED <<platform, routeConfig, routesErr, routesTried, routesReturn>>

\* getWindowsRoutes (lines 208-270), then "if utils.IsLinux()" of GetDefaultRoutes (line 463)
getWindowsRoutes_Run(out) ==
    /\ routesPc = "win"
    /\ LET parsed == out.kind \in {"array", "null", "object"}
           kept == SelectSeq(out.val, LAMBDA r : r.dst # "")
       IN /\ routeConfig' =
                 [Routes |-> IF parsed
                             THEN [i \in DOMAIN kept |->
                                      RouteInfoOf("PowerShell", kept[i].dst, kept[i].gateway, kept[i].dev)]
                             ELSE <<>>]
          /\ routesErr' =
                 IF out.kind = "fail"
                 THEN Untyped(<<"failed", "to", "execute", "PowerShell", "command:">> \o ErrCommand.msg)
                 ELSE IF ~parsed
                 THEN Untyped(<<"failed", "to", "parse", "PowerShell", "output:", "invalid", "character">>)
                 ELSE NoErr
    /\ routesPc' = IF IsLinux THEN "lin1" ELSE "ret"
    /\ OthersUnchanged({"routes"})
    /\ UNCHANGED <<platform, routesTried, routesReturn>>

\* getLinuxRoutes, tier 1 (lines 277-319) and the guard of tier 2 (line 322)
getLinuxRoutes_Tier1(out) ==
    /\ routesPc = "lin1"
    /\ LET kept == IF out.kind # "fail" /\ UnmarshalArrayOk(out)
                   THEN SelectSeq(out.val, LAMBDA r : r.dst # "") ELSE <<>>
           routes == [i \in DOMAIN kept |->
                         RouteInfoOf("ip -j route", kept[i].dst, kept[i].gateway, kept[i].dev)]
       IN /\ routeConfig' = [Routes |-> routes]
          /\ routesErr' = IF out.kind = "fail" THEN ErrCommand
                          ELSE IF ~UnmarshalArrayOk(out)
                          THEN Untyped(<<"json:", "cannot", "unmarshal">>) ELSE NoErr
          /\ routesTried' = <<[tier |-> "ip -j route", routes |-> routes]>>
          /\ routesPc' = IF Len(routes) = 0 THEN "lin2" ELSE "ret"
    /\ OthersUnchanged({"routes"})
    /\ UNCHANGED <<platform, routesReturn>>

\* getLinuxRoutes, tier 2 (lines 323-326) with parseLinuxIPRouteOutput, and the guard of
\* tier 3 (line 330); a line is strings.Fields(line)
getLinuxRoutes_Tier2(out) ==
    /\ routesPc = "lin2"
    /\ LET kept == SelectSeq(out.val, LAMBDA parts : Len(parts) >= 2)
           parsed == [i \in DOMAIN kept |->
                         RouteInfoOf("ip route", kept[i][1], FieldAfter(kept[i], "via"),
                                     FieldAfter(kept[i], "dev"))]
           routes == IF out.kind = "fail" THEN routeConfig.Routes ELSE parsed
       IN /\ routeConfig' = [Routes |-> routes]
          /\ routesErr' = IF out.kind = "fail" THEN ErrCommand ELSE NoErr
          /\ routesTried' = Append(routesTried, [tier |-> "ip route",
                                                 routes |-> IF out.kind = "fail" THEN <<>> ELSE parsed])
          /\ routesPc' = IF Len(routes) = 0 THEN "lin3" ELSE "ret"
    /\ OthersUnchanged({"routes"})
    /\ UNCHANGED <<platform, routesReturn>>

\* getLinuxRoutes, tier 3 (line 331) with an error-free parseLinuxProcNetRoute
getLinuxRoutes_Tier3Nil ==
    /\ routesPc = "lin3"
    /\ routeConfig' = [Routes |-> <<>>]
    /\ routesErr' = NoErr
    /\ routesTried' = Append(routesTried, [tier |-> "/proc/net/route", routes |-> <<>>])
    /\ routesPc' = "ret"
    /\ OthersUnchanged({"routes"})
    /\ UNCHANGED <<platform, routesReturn>>

\* getLinuxRoutes, tier 3 (line 331): parseLinuxProcNetRoute (lines 427-436)
getLinuxRoutes_Tier3 ==
    /\ routesPc = "lin3"
    /\ routeConfig' = [Routes |-> <<>>]
    /\ routesErr' = Untyped(<<"parsing", "/proc/net/route", "not", "implemented">>)
    /\ routesTried' = Append(routesTried, [tier |-> "/proc/net/route", routes |-> <<>>])
    /\ routesPc' = "ret"
    /\ OthersUnchanged({"routes"})
    /\ UNCHANGED <<platform, routesReturn>>

\* GetDefaultRoutes, lines 467-478
GetDefaultRoutes_Return ==
    /\ routesPc = "ret"
    /\ routesReturn' =
           IF routesErr # NoErr THEN [routes |-> <<>>, err |-> routesErr]
           ELSE [routes |-> SelectSeq(routeConfig.Routes, LAMBDA route : route.Type = "Default"),
                 err |-> NoErr]
    /\ routesPc' = "done"
    /\ OthersUnchanged({"routes"})
    /\ UNCHANGED <<platform, routeConfig, routesErr, routesTried>>

RoutesNext ==
    LET RouteEntries ==
            {[dst |-> d, gateway |-> g, dev |-> "eth0"] :
                d \in {"", "default", "0.0.0.0/0", "::/0", "10.0.0.0/8", "10.0.0.1"},
                g \in {"", "10.0.0.1"}}
        \* Get-NetRoute prints a prefix for every destination, never the word "default"
        WinRouteEntries == {e \in RouteEntries : e.dst # "default"}
    IN \/ GetDefaultRoutes_Call
       \/ routesPc = "win" /\ \E out \in JSONOutputs(WinRouteEntries) : getWindowsRoutes_Run(out)
       \/ routesPc = "lin1" /\ \E out \in JSONOutputs(RouteEntries) : getLinuxRoutes_Tier1(out)
       \/ routesPc = "lin2" /\ \E out \in IPRouteOutputs : getLinuxRoutes_Tier2(out)
       \/ getLinuxRoutes_Tier3
       \/ GetDefaultRoutes_Return

(***************************************************************************)
(* Specifications: one per component, the others idle                      *)
(***************************************************************************)
\* the state before any call: no component has been called; the components named in fed (rt: the
\* route parsers, st: mapGopsutilStatus, pp: the ping parsers) hold one input of their bounded set
Init(platforms, fed) ==
    /\ platform \in platforms
    /\ gwPc = "idle"
    /\ gwOp = "none"
    /\ gwIPVersion = ""
    /\ gatewayConfig = EmptyGatewayConfig
    /\ gwErr = NoErr
    /\ gwResult = [info |-> <<>>, err |-> NoErr]
    /\ tiersTried = <<>>
    /\ cmdPc = "idle"
    /\ cmdDeadline = 0
    /\ cmdClock = 0
    /\ ctxDone = FALSE
    /\ child = NoChild
    /\ cmdErr = NoErr
    /\ spawned = 0
    /\ startCalls = 0
    /\ dnsPc = "idle"
    /\ dnsOp = "none"
    /\ dnsArg = ""
    /\ dnsConfig = <<>>
    /\ dnsErr = NoErr
    /\ dnsResult = [info |-> <<>>, err |-> NoErr]
    /\ dnsInput = NoInput
    /\ strategiesRun = <<>>
    /\ rtPc = "input"
    /\ IF "rt" \in fed THEN rtDest \in Destinations ELSE rtDest = <<>>
    /\ rtParser = "none"
    /\ rtType = ""
    /\ stPc = "input"
    /\ IF "st" \in fed THEN stIn \in StatusInputs ELSE stIn = <<>>
    /\ stOut = <<>>
    /\ stOut2 = <<>>
    /\ connPc = "idle"
    /\ connSockets = NoInput
    /\ connProcs = NoInput
    /\ processMap = EmptyProcessMap
    /\ connectionConfig = <<>>
    /\ connErr = NoErr
    /\ connShown = <<>>
    /\ connPort = 0
    /\ connByPort = [conns |-> <<>>, err |-> NoErr]
    /\ IF "pp" \in fed
       THEN ppPc = "input" /\ \E in \in PingInputs : ppOutput = in.output /\ ppGiven = in.given
       ELSE ppPc = "idle" /\ ppOutput = <<>> /\ ppGiven = [shape |-> "none"]
    /\ ppMatcher = "none"
    /\ ppStats = ZeroStats
    /\ pingPc = "idle"
    /\ pingOp = "none"
    /\ pingHosts = <<>>
    /\ pingIndex = 0
    /\ pingConfig = [Host |-> "", Count |-> 0, Timeout |-> 0, Size |-> 0]
    /\ pingReturn = NoPingReturn
    /\ pingResults = <<>>
    /\ pingEvents = <<>>
    /\ pingOverlap = FALSE
    /\ pingStep = "none"
    /\ pingReport = "none"
    /\ ipPc = "idle"
    /\ ipImpl = "none"
    /\ ipIndex = 0
    /\ ipElapsed = 0
    /\ ipLastErr = NoErr
    /\ ipAttempts = <<>>
    /\ ipReturn = [ip |-> <<>>, err |-> NoErr]
    /\ ryPc = "idle"
    /\ ryErr = NoErr
    /\ ryShould = FALSE
    /\ ryAttempt = Zero64
    /\ ryDelay = Zero64
    /\ ryKinds = [timeout |-> FALSE, permission |-> FALSE, network |-> FALSE]
    /\ ryMessage = ""
    /\ routesPc = "idle"
    /\ routeConfig = [Routes |-> <<>>]
    /\ routesErr = NoErr
    /\ routesTried = <<>>
    /\ routesReturn = [routes |-> <<>>, err |-> NoErr]

SpecGateway == Init(Platforms, {}) /\ [][GwNext]_vars

SpecRunner == Init(Platforms, {}) /\ [][CmdNext]_vars

SpecDNS == Init(Platforms, {}) /\ [][DnsNext]_vars

\* the route parsers applied to every destination of the bounded set
SpecRouteType == Init({"linux"}, {"rt"}) /\ [][RtNext]_vars

\* mapGopsutilStatus applied to every status string of the bounded set
SpecStatus == Init({"linux"}, {"st"}) /\ [][StNext]_vars

SpecConnections == Init(Platforms, {}) /\ [][ConnNext]_vars

\* the ping parsers applied to every transcript of the bounded set
SpecPingParse == Init(Platforms, {"pp"}) /\ [][PpNext]_vars

SpecPing == Init(Platforms, {}) /\ [][PingNext]_vars

\* GetPublicIP does not look at the platform
SpecPublicIP == Init({"linux"}, {}) /\ [][IpNext]_vars

\* the retry policy does not look at the platform
SpecRetry == Init({"linux"}, {}) /\ [][RyNext]_vars

SpecRoutes == Init(Platforms, {}) /\ [][RoutesNext]_vars

(***************************************************************************)
(* Claims                                                                  *)
(***************************************************************************)

\* C1: in every route parser the route type is decided by the destination alone:
\* "0.0.0.0/0", "::/0" and the literal "default" are Default, any other
\* destination containing "/" is Network, every other destination is Host.
C1_RouteTypeByDestination ==
    rtPc = "classified" =>
        rtType = IF rtDest \in {<<"0.0.0.0", "/", "0">>, <<"::", "/", "0">>, <<"default">>} THEN "Default"
                 ELSE IF \E i \in DOMAIN rtDest : rtDest[i] = "/" THEN "Network"
                 ELSE "Host"

\* C2: in every gateway acquisition the default of a family is the first record of
\* AllGateways tagged with that family (a later record of the family never
\* replaces it), and there is none exactly when no record has that family.
C2_FirstOfFamily(all, fam) ==
    LET idx == {i \in DOMAIN all : all[i].IPVersion = fam}
    IN IF idx = {} THEN <<>>
       ELSE <<all[CHOOSE i \in idx : \A j \in idx : i <= j]>>

C2_FirstSeenDefault ==
    /\ gatewayConfig.DefaultIPv4 = C2_FirstOfFamily(gatewayConfig.AllGateways, "IPv4")
    /\ gatewayConfig.DefaultIPv6 = C2_FirstOfFamily(gatewayConfig.AllGateways, "IPv6")
    /\ Len(gatewayConfig.DefaultIPv4) <= 1
    /\ Len(gatewayConfig.DefaultIPv6) <= 1

\* C2 witness: an acquisition has returned two different records of one family and
\* the earlier one is the default.
C2_Witness ==
    /\ gwPc \in {"linRet", "winRet"}
    /\ \E i, j \in DOMAIN gatewayConfig.AllGateways :
          /\ i < j
          /\ gatewayConfig.AllGateways[i].IPVersion = "IPv4"
          /\ gatewayConfig.AllGateways[j].IPVersion = "IPv4"
          /\ gatewayConfig.AllGateways[i] # gatewayConfig.AllGateways[j]
          /\ gatewayConfig.DefaultIPv4 = <<gatewayConfig.AllGateways[i]>>

\* C3: when the structured tier and the text tier of getLinuxGateway both produce no
\* record, getLinuxGateway returns an error (never a nil error with an empty
\* gateway set), and GetDefaultGateway never returns a nil record with a nil error:
\* a record it returns has the requested family.
C3_ExhaustionIsError ==
    /\ gwPc = "linRet" /\ (\A k \in DOMAIN tiersTried :
                              tiersTried[k].tier # "/proc/net/route" => tiersTried[k].yield = 0)
          => gwErr # NoErr /\ gatewayConfig.AllGateways = <<>>
    /\ gwPc = "linRet" /\ gatewayConfig.AllGateways = <<>> => gwErr # NoErr
    /\ gwPc = "done" /\ gwOp = "GetDefaultGateway" =>
          /\ ~(gwResult.info = <<>> /\ gwResult.err = NoErr)
          /\ gwResult.err = NoErr => gwResult.info[1].IPVersion = gwIPVersion

\* C3 witness: GetDefaultGateway has returned after all three tiers of
\* getLinuxGateway were exhausted.
C3_Witness ==
    /\ gwPc = "done"
    /\ gwOp = "GetDefaultGateway"
    /\ Len(tiersTried) = 3
    /\ gwResult.info = <<>>
    /\ gwResult.err # NoErr

\* C4: getLinuxGateway attempts its tiers in the order ip -j route, ip route,
\* /proc/net/route; a tier is attempted only if every earlier tier produced no
\* record, the next tier is attempted whenever all attempted ones produced none, and
\* all records returned carry the Source of the last tier attempted.
C4_TierOrder == <<"ip -j route", "ip route", "/proc/net/route">>

C4_TiersInOrder ==
    /\ Len(tiersTried) <= Len(C4_TierOrder)
    /\ \A k \in DOMAIN tiersTried : tiersTried[k].tier = C4_TierOrder[k]
    /\ \A k \in DOMAIN tiersTried : k > 1 => tiersTried[k - 1].yield = 0
    /\ gwPc = "linRet" =>
          /\ tiersTried # <<>>
          /\ Len(tiersTried) < Len(C4_TierOrder) => tiersTried[Len(tiersTried)].yield > 0
          /\ Len(gatewayConfig.AllGateways) = tiersTried[Len(tiersTried)].yield
          /\ \A i \in DOMAIN gatewayConfig.AllGateways :
                gatewayConfig.AllGateways[i].Source = tiersTried[Len(tiersTried)].tier

\* C4 witness: the structured tier produced nothing, the text tier produced a record
\* and getLinuxGateway returned without trying the raw table.
C4_Witness ==
    /\ gwPc = "linRet"
    /\ Len(tiersTried) = 2
    /\ tiersTried[1].yield = 0
    /\ gatewayConfig.AllGateways # <<>>
    /\ gatewayConfig.AllGateways[1].Source = "ip route"

\* C5: when the deadline of CommandWithTimeout elapses before the child exits (the
\* child is killed), the error returned is classified as a timeout by IsTimeoutError.
C5_DeadlineIsTimeout ==
    cmdPc = "returned" /\ child.cause = "killed" =>
        /\ child.state = "reaped"
        /\ IsTimeoutError(cmdErr)

\* C6: a call of CommandWithTimeout calls cmd.Start once and creates at most one
\* process (exactly one unless the start itself fails); once the call has returned
\* the process it created has exited and has been reaped.
C6_OneChildReaped ==
    /\ startCalls <= 1
    /\ spawned <= 1
    /\ child.state # "none" <=> spawned = 1
    /\ cmdPc = "returned" =>
          /\ startCalls = 1
          /\ child.state \in {"none", "reaped"}
          /\ spawned = 0 => cmdErr \in {ErrNotFound, ErrPermission, ErrDeadline}

\* C6 witness: the call has returned after the deadline killed the running child.
C6_Witness ==
    /\ cmdPc = "returned"
    /\ ctxDone
    /\ child.cause = "killed"
    /\ child.state = "reaped"
    /\ spawned = 1

\* C7: after getLinuxDNS, the combined list of the "system" record holds the
\* addresses of the nameserver lines in file order, every nameserver line with a
\* valid IP has its address in exactly one of the IPv4 and IPv6 lists, an invalid
\* address is in neither, and len(IPv4) + len(IPv6) is the number of nameserver
\* lines with a valid IP.
C7_IsNameserverLine(fields) ==
    /\ Len(fields) >= 2
    /\ fields[1] = "nameserver"

C7_Servers ==
    LET ns == SelectSeq(dnsInput.val, C7_IsNameserverLine)
    IN [i \in DOMAIN ns |-> ns[i][2]]

C7_Count(seq, a) == Cardinality({i \in DOMAIN seq : seq[i] = a})

C7_NameserverPartition ==
    dnsPc = "linRet" /\ dnsErr = NoErr =>
        LET recs == dnsConfig[1].Servers
            info == IF recs = <<>> THEN NewDNSInfo("system") ELSE recs[1]
            servers == C7_Servers
            valid == {i \in DOMAIN servers : ParseIP(servers[i]) # "nil"}
        IN /\ Len(recs) <= 1
           /\ recs = <<>> <=> servers = <<>>
           /\ info.Interface = "system"
           /\ info.All = servers
           /\ Len(info.IPv4) + Len(info.IPv6) = Cardinality(valid)
           /\ \A i \in DOMAIN servers :
                 LET a == servers[i]
                 IN IF i \in valid
                    THEN /\ C7_Count(info.IPv4, a) + C7_Count(info.IPv6, a)
                              = C7_Count(servers, a)
                         /\ C7_Count(info.IPv4, a) = 0 \/ C7_Count(info.IPv6, a) = 0
                    ELSE C7_Count(info.IPv4, a) = 0 /\ C7_Count(info.IPv6, a) = 0

\* C7 witness: a file with an IPv4, an IPv6 and an invalid nameserver has been parsed.
C7_Witness ==
    /\ dnsPc = "linRet"
    /\ dnsErr = NoErr
    /\ Len(dnsConfig[1].Servers) = 1
    /\ Len(dnsConfig[1].Servers[1].IPv4) = 1
    /\ Len(dnsConfig[1].Servers[1].IPv6) = 1
    /\ Len(dnsConfig[1].Servers[1].All) > 2

\* C8: every DNS query of ShowDNSInformation, GetDNSServersByInterface and
\* TestConnectivity executes exactly one of the two strategies.
C8_OneStrategyPerCall ==
    dnsPc = "done" => Len(strategiesRun) = 1

\* C9: getWindowsDNS returns a parse error only when the output is neither a JSON
\* array of records nor a single JSON object.
C9_BothShapesAccepted ==
    dnsPc = "winRet" /\ dnsInput.kind \in {"array", "object"} => dnsErr = NoErr

\* C10: mapGopsutilStatus is idempotent; a member of the vocabulary maps to itself,
\* LISTENING in any letter case maps to LISTEN, and a string that is no spelling of
\* a recognized status maps to its upper-cased form.
C10_NormalizeIdempotent ==
    /\ stPc = "twice" => stOut2 = stOut
    /\ stPc \in {"once", "twice"} =>
          /\ stIn \in StatusVocabulary => stOut = stIn
          /\ ToUpper(stIn) = St.LISTENING => stOut = St.LISTEN
          /\ ToUpper(stIn) \notin StatusVocabulary \cup {St.LISTENING} => stOut = ToUpper(stIn)

\* C10 witness: a lower-case spelling of an unrecognized status has been normalized
\* twice.
C10_Witness ==
    /\ stPc = "twice"
    /\ ToUpper(stIn) = St.CLOSING
    /\ stIn # St.CLOSING
    /\ stOut2 = St.CLOSING

\* the sockets of the enumeration that have a local address, in order
C11_Kept == SelectSeq(connSockets.val, LAMBDA c : c.Laddr.IP # "")

\* the PID has no entry in the PID -> name table: the process enumeration failed,
\* the process is not listed, or reading its name failed
C11_Unresolved(pid) ==
    \/ connProcs.kind = "fail"
    \/ pid \notin ProcessPids
    \/ connProcs.val[pid] \in {"absent", "error"}

\* C11: getActiveConnections returns an error exactly when the socket enumeration
\* failed; otherwise, whatever happened to the process enumeration and to the
\* reading of process names, it returns one record per socket with a local
\* address, and the record of a socket whose PID is not in the PID -> name table
\* has an empty Process.
C11_OnlyEnumerationFails ==
    connPc = "done" =>
        /\ (connErr # NoErr) <=> (connSockets.kind = "fail")
        /\ (connErr # NoErr) => connectionConfig = <<>>
        /\ (connErr = NoErr) =>
            /\ connectionConfig # <<>>
            /\ LET recs == connectionConfig[1].Connections
               IN /\ Len(recs) = Len(C11_Kept)
                  /\ \A i \in DOMAIN recs :
                        /\ recs[i].PID = C11_Kept[i].Pid
                        /\ C11_Unresolved(recs[i].PID) => recs[i].Process = ""

\* C11 witness: the batch was returned without error although reading the name
\* of process 2 failed, and the socket of process 2 is reported with an empty
\* Process next to a socket whose process was resolved.
C11_Witness ==
    /\ connPc = "done"
    /\ connErr = NoErr
    /\ connProcs.kind = "ok"
    /\ connProcs.val[2] = "error"
    /\ connProcs.val[1] = "sshd"
    /\ \E i, j \in DOMAIN connectionConfig[1].Connections :
          /\ connectionConfig[1].Connections[i].PID = 2
          /\ connectionConfig[1].Connections[i].Process = ""
          /\ connectionConfig[1].Connections[j].Process = "sshd"

\* the number of records of the batch that satisfy P
C12_Count(recs, P(_)) == Cardinality({i \in DOMAIN recs : P(recs[i])})

\* C12: in the batch getActiveConnections returns no record has an empty local
\* address, TotalCount is the number of records (the number of enumerated sockets
\* with a local address), TCPCount / UDPCount are the numbers of records of type
\* tcp / udp, and ListenCount / EstablishedCount the numbers of records whose
\* normalized status is LISTEN / ESTABLISHED.
C12_CountersAgree ==
    (connPc = "done" /\ connErr = NoErr) =>
        LET cfg == connectionConfig[1]
            recs == cfg.Connections
        IN /\ \A i \in DOMAIN recs : recs[i].LocalAddr[1] # ""
           /\ cfg.TotalCount = Len(recs)
           /\ cfg.TotalCount = Cardinality({i \in DOMAIN connSockets.val : connSockets.val[i].Laddr.IP # ""})
           /\ cfg.TCPCount = C12_Count(recs, LAMBDA r : r.Type = "tcp")
           /\ cfg.UDPCount = C12_Count(recs, LAMBDA r : r.Type = "udp")
           /\ cfg.ListenCount = C12_Count(recs, LAMBDA r : r.Status = St.LISTEN)
           /\ cfg.EstablishedCount = C12_Count(recs, LAMBDA r : r.Status = St.ESTABLISHED)

\* C12 witness: two sockets were enumerated, the one without a local address was
\* dropped and the other, a listening TCP socket reported as LISTENING, counted.
C12_Witness ==
    /\ connPc = "done"
    /\ connErr = NoErr
    /\ Len(connSockets.val) = 2
    /\ \E i \in DOMAIN connSockets.val : connSockets.val[i].Laddr.IP = ""
    /\ \E i \in DOMAIN connSockets.val : connSockets.val[i].Status = St.LISTENING
    /\ connectionConfig[1].TotalCount = 1
    /\ connectionConfig[1].ListenCount = 1

RECURSIVE C13_Number(_, _)
\* the number a string of decimal digits denotes, read from the left
C13_Number(ds, acc) ==
    IF ds = <<>> THEN acc ELSE C13_Number(Tail(ds), 10 * acc + DigitValue[Head(ds)])

\* the value of a decimal literal times 10^k (the literal has at most k
\* fractional digits)
C13_Scaled(s, k) ==
    LET dots == {i \in DOMAIN s : s[i] = "."}
        dot == IF dots = {} THEN Len(s) + 1 ELSE CHOOSE i \in dots : TRUE
        frac == SubSeq(s, dot + 1, Len(s))
    IN C13_Number(SubSeq(s, 1, dot - 1) \o [i \in 1..k |-> IF i <= Len(frac) THEN frac[i] ELSE "0"], 0)

\* C13: from a POSIX transcript holding "<S> packets transmitted, <R> received,
\* <L>% packet loss" and "rtt min/avg/max/mdev = <a>/<b>/<c>/<d> ms",
\* parseLinuxPingOutput recovers PacketsSent = S, PacketsRecv = R, PacketLoss = L,
\* MinRTT = a ms, AvgRTT = b ms and MaxRTT = c ms exactly (durations in
\* microseconds, the loss compared in ten-thousandths of a percent).
C13_PingRoundTrip ==
    (ppPc = "parsed" /\ ppMatcher = "linux" /\ ppGiven.shape = "posix") =>
        /\ ppStats.PacketsSent = C13_Scaled(ppGiven.S, 0)
        /\ ppStats.PacketsRecv = C13_Scaled(ppGiven.R, 0)
        /\ ppStats.PacketLoss * 10000 = C13_Scaled(ppGiven.L, 4)
        /\ ppStats.MinRTT = C13_Scaled(ppGiven.a, 3)
        /\ ppStats.AvgRTT = C13_Scaled(ppGiven.b, 3)
        /\ ppStats.MaxRTT = C13_Scaled(ppGiven.c, 3)

\* C14: when the statistics line of a POSIX transcript reports a loss with a
\* fractional part, the PacketLoss that parseLinuxPingOutput extracts is the
\* reported percentage (compared in ten-thousandths of a percent).
C14_FractionalLoss ==
    (/\ ppPc = "parsed" /\ ppMatcher = "linux" /\ ppGiven.shape = "posix"
     /\ \E i \in DOMAIN ppGiven.L : ppGiven.L[i] = ".") =>
        ppStats.PacketLoss * 10000 = C13_Scaled(ppGiven.L, 4)

\* the literal parts of the statistics phrases of the two matchers
C16_PhraseTokens ==
    {"% packet loss", "rtt min/avg/max/mdev = ", " packets transmitted, ", "% loss)", "Minimum = "}

\* C16: when the output holds no statistics phrase, every numeric field of the
\* result is zero after parsing, with the Windows matcher and with the POSIX one.
C16_NoPhraseAllZero ==
    (/\ ppPc = "parsed"
     /\ \A i \in DOMAIN ppOutput : \A j \in DOMAIN ppOutput[i] : ppOutput[i][j] \notin C16_PhraseTokens) =>
        ppStats = ZeroStats

\* C15: whenever PingHost has returned, it has returned a non-nil result and a nil
\* error, and Success is true exactly when a child was started, exited by itself
\* with status 0, and the deadline had not elapsed by the time it was reaped:
\* a start failure, a non-zero exit and the deadline are the only ways to
\* fail, whatever the output held.
C15_SuccessIffExitZero ==
    (pingPc \in {"sleep", "done"} /\ pingReturn # NoPingReturn) =>
        /\ pingReturn.result # <<>>
        /\ pingReturn.err = NoErr
        /\ pingReturn.result[1].Success <=>
              (child.state = "reaped" /\ child.cause = "exit" /\ child.exitCode = 0 /\ ~ctxDone)

\* C15 witness: PingHost has returned a successful result although the output
\* reported 100% packet loss.
C15_Witness ==
    /\ pingOp = "PingHost"
    /\ pingPc = "done"
    /\ pingReturn.result # <<>>
    /\ pingReturn.result[1].Success
    /\ pingReturn.result[1].PacketLoss = 100
    /\ child.exitCode = 0

\* C17: PingMultipleHosts pings the hosts one after the other in input order: the
\* pings start and end alternately, host by host; a ping starts only when the
\* child of the previous one has been reaped (no ping is ever started while a
\* ping child runs); and when it returns, the list holds one non-nil result per
\* input host, in input order, whether the pings failed or not.
C17_SequentialAllHosts ==
    pingOp = "PingMultipleHosts" =>
        /\ ~pingOverlap
        /\ \A j \in DOMAIN pingEvents :
              pingEvents[j] = [ev |-> IF j % 2 = 1 THEN "start" ELSE "end", index |-> (j + 1) \div 2]
        /\ pingPc = "start" => child.state \in {"none", "reaped"}
        /\ child.state = "running" => pingPc = "output"
        /\ pingPc = "done" =>
              /\ Len(pingResults) = Len(pingHosts)
              /\ Len(pingEvents) = 2 * Len(pingHosts)
              /\ \A i \in DOMAIN pingResults :
                    pingResults[i] # <<>> /\ pingResults[i][1].Host = pingHosts[i]

\* C17 witness: PingMultipleHosts has returned for two hosts, the first ping
\* having been killed at the deadline and the second having succeeded.
C17_Witness ==
    /\ pingOp = "PingMultipleHosts"
    /\ pingPc = "done"
    /\ Len(pingHosts) = 2
    /\ Len(pingResults) = 2
    /\ ~pingResults[1][1].Success
    /\ pingResults[1][1].Error \in {<<"signal:", "killed">>, <<"exit", "status", "1">>}
    /\ pingResults[2][1].Success

\* body is ip with white space before and after it, and ip has none at its ends
C18_IsTrimOf(ip, body) ==
    /\ ip # <<>> => (ip[1] \notin WhiteSpace /\ ip[Len(ip)] \notin WhiteSpace)
    /\ \E i, j \in 0..Len(body) :
          /\ i + j <= Len(body)
          /\ SubSeq(body, i + 1, Len(body) - j) = ip
          /\ \A k \in 1..i : body[k] \in WhiteSpace
          /\ \A k \in (Len(body) - j + 1)..Len(body) : body[k] \in WhiteSpace

\* the response is HTTP 200 with a body that is an IP address within white space
C18_Answers(resp) ==
    /\ resp.kind = "response"
    /\ resp.status = 200
    /\ \E ip \in SeqsUpTo({"203.0.113.7", "2001:db8::1", "8.8.8.8", "1.1.1.1"}, 1) :
          ip # <<>> /\ C18_IsTrimOf(ip, resp.body)

\* C18: GetPublicIP contacts the endpoints in list order, each at most once; when
\* it returns without error, the result is the white-space-trimmed body of the
\* last request made, that request was answered HTTP 200 with a body that is an
\* IP address, every request before it failed, the number of requests is the
\* index of that endpoint, and the result parses as an IP address; once it has
\* returned, no further endpoint is contacted.
C18_FirstValidEndpoint ==
    /\ \A k \in DOMAIN ipAttempts : ipAttempts[k].endpoint = PublicIPEndpoints[k]
    /\ Len(ipAttempts) <= Len(PublicIPEndpoints)
    /\ \A k \in DOMAIN ipAttempts : k < Len(ipAttempts) => ~C18_Answers(ipAttempts[k].resp)
    /\ (ipPc = "done" /\ ipReturn.err = NoErr) =>
          /\ ipAttempts # <<>>
          /\ C18_Answers(ipAttempts[Len(ipAttempts)].resp)
          /\ C18_IsTrimOf(ipReturn.ip, ipAttempts[Len(ipAttempts)].resp.body)
          /\ Len(ipReturn.ip) = 1
          /\ ParseIP(ipReturn.ip[1]) # "nil"
    /\ (ipPc = "done" /\ ipReturn.err # NoErr) =>
          /\ ipReturn.ip = <<>>
          /\ \A k \in DOMAIN ipAttempts : ~C18_Answers(ipAttempts[k].resp)

\* C18 witness: the first two endpoints answered HTTP 500, the third answered
\* "203.0.113.7\n"; GetPublicIP returned "203.0.113.7" without error after three
\* requests.
C18_Witness ==
    /\ ipPc = "done"
    /\ ipReturn = [ip |-> <<"203.0.113.7">>, err |-> NoErr]
    /\ Len(ipAttempts) = 3
    /\ ipAttempts[1].resp.status = 500
    /\ ipAttempts[2].resp.status = 500
    /\ ipAttempts[3].resp.body = <<"203.0.113.7", "\n">>

\* C19: ShouldRetry(err) is true only for an error of kind Timeout or Network,
\* and false for every error that IsPermissionError recognizes (by type or by
\* message text) and for every Validation error.
C19_RetryPolicy ==
    ryPc = "ShouldRetry" =>
        /\ ryShould => (IsTimeoutError(ryErr) \/ IsNetworkError(ryErr))
        /\ IsPermissionError(ryErr) => ~ryShould
        /\ (ryErr.typed /\ ryErr.Type = "Validation") => ~ryShould

RECURSIVE C20_Times(_, _)
\* k times d, by repeated addition
C20_Times(k, d) == IF k = 0 THEN Zero64 ELSE Add64(C20_Times(k - 1, d), d)

\* C20: GetRetryDelay(n) is RetryDelay (1 s) for n <= 0, n seconds for n from 1
\* to 9 and 10 s for every n >= 10; it is never negative and never above 10 s.
C20_LinearCapped ==
    ryPc = "GetRetryDelay" =>
        /\ ~Less64(Zero64, ryAttempt) => ryDelay = Int64Of(1000000000)
        /\ \A k \in 1..9 : ryAttempt = Int64Of(k) => ryDelay = C20_Times(k, Int64Of(1000000000))
        /\ ~Less64(ryAttempt, Int64Of(10)) => ryDelay = C20_Times(10, Int64Of(1000000000))
        /\ ~IsNegative64(ryDelay)
        /\ ~Less64(C20_Times(10, Int64Of(1000000000)), ryDelay)

\* C21: for a typed NetworkError, IsTimeoutError, IsPermissionError and IsNetworkError
\* are decided by its Type alone, so at most one of them is true whatever its message
\* says; for any other error they are decided by the known substrings of its text.
C21_KindByTypeOrText ==
    ryPc = "ErrorKind" =>
        IF ryErr.typed
        THEN /\ ryKinds.timeout = (ryErr.Type = "Timeout")
             /\ ryKinds.permission = (ryErr.Type = "Permission")
             /\ ryKinds.network = (ryErr.Type = "Network")
             /\ Cardinality({k \in {"timeout", "permission", "network"} : ryKinds[k]}) <= 1
        ELSE /\ ryKinds.timeout =
                    (\E sub \in {<<"timeout">>, <<"deadline", "exceeded">>} : Contains(ryErr.msg, sub))
             /\ ryKinds.permission =
                    (\E sub \in {<<"permission", "denied">>, <<"access", "denied">>, <<"not", "permitted">>} :
                        Contains(ryErr.msg, sub))
             /\ ryKinds.network =
                    (\E sub \in {<<"network">>, <<"connection">>, <<"unreachable">>} : Contains(ryErr.msg, sub))

\* C21 witness: a typed Command error whose text says "permission denied" has been
\* classified, and none of the three tests recognized it
C21_Witness ==
    /\ ryPc = "ErrorKind"
    /\ ryErr.typed
    /\ ryErr.Type = "Command"
    /\ Contains(ryErr.msg, <<"permission", "denied">>)
    /\ ryKinds = [timeout |-> FALSE, permission |-> FALSE, network |-> FALSE]

\* the error text has no timeout and no permission substring
C26_NoTimeoutNoPermission(msg) ==
    \A sub \in {<<"timeout">>, <<"deadline", "exceeded">>, <<"permission", "denied">>,
                <<"access", "denied">>, <<"not", "permitted">>} : ~Contains(msg, sub)

\* C26: GetUserFriendlyMessage maps an untyped error by its text: "connection refused"
\* (and no timeout or permission substring) gives the connection-refused message,
\* "network unreachable" the network-unreachable message and "no such host" the
\* host-not-found message; the result is always one of the fixed messages.
C26_MessageByText ==
    (ryPc = "GetUserFriendlyMessage" /\ ~ryErr.typed) =>
        /\ (Contains(ryErr.msg, <<"connection", "refused">>) /\ C26_NoTimeoutNoPermission(ryErr.msg))
              => ryMessage = "Connection refused - the service may not be running"
        /\ (Contains(ryErr.msg, <<"network", "unreachable">>) /\ C26_NoTimeoutNoPermission(ryErr.msg))
              => ryMessage = "Network unreachable - check your network connection"
        /\ (Contains(ryErr.msg, <<"no such host">>) /\ C26_NoTimeoutNoPermission(ryErr.msg)
            /\ ~Contains(ryErr.msg, <<"connection">>) /\ ~Contains(ryErr.msg, <<"network">>)
            /\ ~Contains(ryErr.msg, <<"unreachable">>))
              => ryMessage = "Host not found - check the hostname or DNS settings"
        /\ ryMessage \in
              {"Please try again or check your network configuration",
               "Please try again or check your network configuration (Operation timed out)",
               "Permission denied - some features may require elevated privileges",
               "Network is not available",
               "Host not found - check the hostname or DNS settings",
               "Connection refused - the service may not be running",
               "Network unreachable - check your network connection"}

\* C22: exhaustion of the Windows gateway acquisition surfaces an error: when
\* both family-scoped commands of getWindowsGateway fail or yield no record,
\* getWindowsGateway returns an error instead of an empty configuration, and
\* ShowGatewayInformation returns that error.
C22_WindowsExhaustionIsError ==
    /\ (gwPc = "winRet" /\ Len(gatewayConfig.AllGateways) = 0) => gwErr # NoErr
    /\ (gwPc = "done" /\ gwOp = "ShowGatewayInformation" /\ IsWindows
        /\ Len(gatewayConfig.AllGateways) = 0) => gwResult.err # NoErr

\* the tiers of getLinuxRoutes, in the order of the code
C23_Tiers == <<"ip -j route", "ip route", "/proc/net/route">>

\* C23: getLinuxRoutes returns a non-nil error exactly when all three tiers
\* (ip -j route, ip route, raw table) produced zero routes; when some tier
\* produced a route the error is nil, no later tier was attempted and the
\* routes returned are that tier's routes, all with its provenance tag.
C23_AbsorbThenExhaust ==
    (routesPc = "ret" /\ IsLinux) =>
        LET n == Len(routesTried)
            productive == {i \in 1..n : Len(routesTried[i].routes) > 0}
        IN /\ n \in 1..3
           /\ \A i \in 1..n : routesTried[i].tier = C23_Tiers[i]
           /\ (routesErr # NoErr) <=> (n = 3 /\ productive = {})
           /\ productive # {} =>
                 /\ productive = {n}
                 /\ routesErr = NoErr
                 /\ routeConfig.Routes = routesTried[n].routes
                 /\ \A j \in DOMAIN routeConfig.Routes : routeConfig.Routes[j].Source = C23_Tiers[n]

\* C23 witness: the first tier failed, the second produced two routes and
\* getLinuxRoutes has returned them with a nil error
C23_Witness ==
    /\ routesPc = "ret"
    /\ IsLinux
    /\ Len(routesTried) = 2
    /\ routesTried[1].routes = <<>>
    /\ Len(routesTried[2].routes) = 2
    /\ routeConfig.Routes = routesTried[2].routes
    /\ routesErr = NoErr

\* C25: GetDefaultRoutes returns exactly the routes of the acquired set whose
\* destination is the default route ("default", "0.0.0.0/0" or "::/0"), the
\* routes ShowRoutingTable counts as default routes.
C25_AllDefaultRoutes ==
    (routesPc = "done" /\ routesReturn.err = NoErr) =>
        routesReturn.routes =
            SelectSeq(routeConfig.Routes,
                      LAMBDA route : route.Destination \in {"default", "0.0.0.0/0", "::/0"})

\* C24: if the overall deadline of GetPublicIP elapses before any endpoint has
\* succeeded, the returned error is of kind Timeout, whichever endpoint (the
\* last one of the list included) was in progress when the deadline elapsed.
C24_OverallDeadlineIsTimeout ==
    (ipPc = "done" /\ ipReturn.err # NoErr /\ ipElapsed >= PublicIPTimout) =>
        IsTimeoutError(ipReturn.err)

\* the decimal text of the port of an address "IP:port"
C27_PortOf(addr) ==
    CASE addr[3] = 0 -> "0" [] addr[3] = 22 -> "22" [] addr[3] = 53 -> "53"
      [] addr[3] = 80 -> "80" [] addr[3] = 443 -> "443"

\* C27: ShowListeningPorts lists exactly the connections whose status is LISTEN,
\* in non-decreasing order of their numeric local port, and the port shown in a
\* row is the port component of its local address, for IPv4 and IPv6 alike.
C27_ListeningSortedByPort ==
    (connPc = "shown" /\ connErr = NoErr) =>
        LET listening == SelectSeq(connectionConfig[1].Connections, LAMBDA c : c.Status = St.LISTEN)
        IN /\ Len(connShown) = Len(listening)
           /\ \A c \in {listening[i] : i \in DOMAIN listening} :
                 Cardinality({i \in DOMAIN connShown : connShown[i].conn = c})
                     = Cardinality({i \in DOMAIN listening : listening[i] = c})
           /\ \A i, j \in DOMAIN connShown :
                 i < j => connShown[i].conn.LocalAddr[3] <= connShown[j].conn.LocalAddr[3]
           /\ \A i \in DOMAIN connShown : connShown[i].port = C27_PortOf(connShown[i].conn.LocalAddr)

\* C29: GetConnectionsByPort(port) returns exactly the connections whose local
\* or remote port is the given port, each of them once (also when both of its
\* ports match).
C29_EachConnectionOnce ==
    (connPc = "filtered" /\ connErr = NoErr) =>
        connByPort.conns =
            SelectSeq(connectionConfig[1].Connections,
                      LAMBDA c : \/ c.LocalAddr[3] = connPort
                                 \/ (c.RemoteAddr # <<>> /\ c.RemoteAddr[3] = connPort))

\* C28: TestConnectivity reports a step (local, gateway, DNS server, internet)
\* as "OK" only if the ping it ran for that step succeeded (its result has
\* Success = true); a ping that failed or timed out is reported as failed.
C28_OkOnlyIfPingSucceeded ==
    pingPc = "reported" =>
        /\ pingReport = "OK" => (pingReturn.result # <<>> /\ pingReturn.result[1].Success)
        /\ (pingReturn.result = <<>> \/ ~pingReturn.result[1].Success) => pingReport = "failed"

\* C30: on the Windows path a ping that completes reports PacketsSent equal to
\* the configured packet count (PingConfig.Count) and PacketsRecv equal to
\* floor(Count * (100 - loss) / 100), so that 0 <= PacketsRecv <= PacketsSent.
C30_WindowsPacketCounts ==
    (IsWindows /\ pingPc \in {"done", "sleep", "reported"} /\ pingReturn.result # <<>>
     /\ pingReturn.result[1].Success) =>
        LET r == pingReturn.result[1]
        IN /\ r.PacketsSent = pingConfig.Count
           /\ r.PacketsRecv = (pingConfig.Count * (100 - r.PacketLoss)) \div 100
           /\ 0 <= r.PacketsRecv
           /\ r.PacketsRecv <= r.PacketsSent

====
